---- MODULE Spec2Model ----
(***************************************************************************)
(* WellCut: a model of the audio processor (silence detection, content     *)
(* extraction, the render pipeline and the WAV encoder).                   *)
(*                                                                         *)
(* Numbers.  The program computes in IEEE doubles; the model computes in   *)
(* exact integers and keeps every quantity as a numerator over a stated    *)
(* denominator:                                                            *)
(*   - a time produced by the detector is a sample offset (seconds =       *)
(*     offset / sampleRate);                                               *)
(*   - minSilenceDuration is a number of 1/DurationDen seconds;            *)
(*   - a window's energy is its mean square (rms^2) in 1/EnergyDen, and    *)
(*     rms < 10^(dB/20) is decided as rms^2 < 10^(dB/10).                  *)
(***************************************************************************)
EXTENDS Integers, Sequences, FiniteSets, TLC

VARIABLES
    det,      \* detectVoiceThreshold: its arguments and its locals
    app,      \* App: analysisResult, audioBuffer.duration, contentClips, errorMessage
    render,   \* processAudioClip: its arguments, renderedBuffer, the Blob
    enc,      \* audioBufferToWav: a buffer and its bytes
    batch,    \* batchProcessAudioClips: its arguments, its locals, the callback's calls
    stats,    \* calculateAudioStats and calculateClipStatistics of a buffer
    fx,       \* an effect alone: a buffer, the options, the buffers given
    preview,  \* one call of createPreviewBuffer
    heap,     \* the AudioBuffer objects made so far, originalBuffer first
    calls,    \* the concurrent calls on originalBuffer
    files     \* the App's files: the list, the file shown, its buffer, the decodes in flight

vars == <<det, app, render, enc, batch, stats, fx, preview, heap, calls, files>>

----------------------------------------------------------------------------
(* Bounds and input sets *)

\* the longest analysed buffer, in windows
MaxWindows == 6

\* buffer.sampleRate (Hz) of the analysed buffers
SampleRates == {20, 30, 44100}

\* window energies (mean square, in 1/EnergyDen): silence, exactly -50 dB (above
\* -60 dB, below -40 dB)
EnergyLevels == {0, 10}

\* thresholdDB
ThresholdsDB == {-60, -50, -40}

\* minSilenceDuration, in 1/DurationDen seconds
MinSilenceDurations == {0, 2, 3}

\* denominators of the fixed-point quantities
DurationDen == 20
EnergyDen == 1000000

----------------------------------------------------------------------------
(* Arithmetic helpers *)

RECURSIVE Pow10(_)
Pow10(k) == IF k = 0 THEN 1 ELSE 10 * Pow10(k - 1)

CeilDiv(a, b) == (a + b - 1) \div b

Min(a, b) == IF a < b THEN a ELSE b

Max(a, b) == IF a > b THEN a ELSE b

----------------------------------------------------------------------------
(* detectVoiceThreshold *)

\* Math.round(sampleRate * 0.05): round half up of sampleRate / 20
WindowSize(sampleRate) == (sampleRate + 10) \div 20

\* the number of iterations of for (i = 0; i < length; i += windowSize)
NumWindows(length, windowSize) == CeilDiv(length, windowSize)

\* a mutant of RmsBelow: the comparison turned round
RmsAbove(energy, thresholdDB) ==
    energy > EnergyDen \div Pow10((0 - thresholdDB) \div 10)

\* rms < Math.pow(10, thresholdDB / 20), for thresholdDB a multiple of 10 from
\* -60 to 0, decided on the squares: energy / EnergyDen < 10^(thresholdDB / 10)
RmsBelow(energy, thresholdDB) ==
    energy < EnergyDen \div Pow10((0 - thresholdDB) \div 10)

\* silenceEnd - silenceStart >= minSilenceDuration, with the two times as sample
\* offsets over sampleRate and the duration over DurationDen
LongEnough(silenceStart, silenceEnd, sampleRate, minSilenceDuration) ==
    (silenceEnd - silenceStart) * DurationDen >= minSilenceDuration * sampleRate

\* the state of the call before the loop
DetectStart(sampleRate, length, windows, thresholdDB, minSilenceDuration) ==
    [ sampleRate |-> sampleRate,
      length |-> length,
      windows |-> windows,
      thresholdDB |-> thresholdDB,
      minSilenceDuration |-> minSilenceDuration,
      i |-> 0,
      inSilence |-> FALSE,
      silenceStart |-> 0,
      consecutiveSilenceFrames |-> 0,
      consecutiveNonSilenceFrames |-> 0,
      segments |-> << >>,
      pc |-> "loop" ]

\* the window the loop is at: windows are numbered from 1, window k starts at
\* sample (k - 1) * windowSize
WindowAt(d) == d.i \div WindowSize(d.sampleRate) + 1

\* the branch rms < threshold of the loop body
SilentWindow(d) ==
    LET c == d.consecutiveSilenceFrames + 1
        enter == ~d.inSilence /\ c >= 2
    IN  [d EXCEPT !.consecutiveSilenceFrames = c,
                  !.consecutiveNonSilenceFrames = 0,
                  !.silenceStart =
                      IF enter THEN d.i - WindowSize(d.sampleRate) ELSE @,
                  !.inSilence = IF enter THEN TRUE ELSE @]

\* a mutant of VoicedWindow: silence ends at the first voiced window
VoicedWindowNoHysteresis(d) ==
    LET c == d.consecutiveNonSilenceFrames + 1
        exit == d.inSilence /\ c >= 1
        keep == LongEnough(d.silenceStart, d.i, d.sampleRate, d.minSilenceDuration)
    IN  [d EXCEPT !.consecutiveNonSilenceFrames = c,
                  !.segments = IF exit /\ keep
                               THEN Append(@, [start |-> d.silenceStart, end |-> d.i])
                               ELSE @,
                  !.inSilence = IF exit THEN FALSE ELSE @,
                  !.consecutiveSilenceFrames = IF exit THEN 0 ELSE @]

\* the branch rms >= threshold of the loop body
VoicedWindow(d) ==
    LET c == d.consecutiveNonSilenceFrames + 1
        exit == d.inSilence /\ c >= 2
        keep == LongEnough(d.silenceStart, d.i, d.sampleRate, d.minSilenceDuration)
    IN  [d EXCEPT !.consecutiveNonSilenceFrames = c,
                  !.segments = IF exit /\ keep
                               THEN Append(@, [start |-> d.silenceStart, end |-> d.i])
                               ELSE @,
                  !.inSilence = IF exit THEN FALSE ELSE @,
                  !.consecutiveSilenceFrames = IF exit THEN 0 ELSE @]

\* one iteration of the loop: the window at i, then i += windowSize
DetectStep(d) ==
    LET next == IF RmsBelow(d.windows[WindowAt(d)], d.thresholdDB)
                THEN SilentWindow(d)
                ELSE VoicedWindow(d)
    IN  [next EXCEPT !.i = d.i + WindowSize(d.sampleRate)]

\* a mutant of DetectEnd: the interval open at the end of the buffer is closed
\* where the loop stopped, after the last window taken as full
DetectEndAtLoopIndex(d) ==
    LET keep == LongEnough(d.silenceStart, d.i, d.sampleRate, d.minSilenceDuration)
    IN  [d EXCEPT !.segments = IF d.inSilence /\ keep
                               THEN Append(@, [start |-> d.silenceStart, end |-> d.i])
                               ELSE @,
                  !.pc = "done"]

\* a mutant of DetectEnd: the interval open at the end of the buffer is kept
\* whatever its length
DetectEndNoFilter(d) ==
    [d EXCEPT !.segments = IF d.inSilence
                           THEN Append(@, [start |-> d.silenceStart, end |-> d.length])
                           ELSE @,
              !.pc = "done"]

\* after the loop: the interval still open is closed at the end of the buffer
DetectEnd(d) ==
    LET keep == LongEnough(d.silenceStart, d.length, d.sampleRate, d.minSilenceDuration)
    IN  [d EXCEPT !.segments = IF d.inSilence /\ keep
                               THEN Append(@, [start |-> d.silenceStart, end |-> d.length])
                               ELSE @,
                  !.pc = "done"]

DetectIdle ==
    [DetectStart(20, 0, << >>, -50, 0) EXCEPT !.pc = "idle"]

----------------------------------------------------------------------------
(* App: handleExtractContentClips *)

\* a mutant of Complement: nothing is pushed between two silences that touch
ComplementSkipEmpty(silences, totalDuration) ==
    LET n == Len(silences)
        head == IF silences[1].start > 0
                THEN << [start |-> 0, end |-> silences[1].start] >>
                ELSE << >>
        mid == [k \in 1..(n - 1) |->
                   [start |-> silences[k].end, end |-> silences[k + 1].start]]
        tail == IF silences[n].end < totalDuration
                THEN << [start |-> silences[n].end, end |-> totalDuration] >>
                ELSE << >>
    IN  head \o SelectSeq(mid, LAMBDA clip : clip.start < clip.end) \o tail

\* lines 289-310: the content clips before the filter, for a list that is not
\* empty: the part before the first silence, the part between each two
\* neighbours (pushed whatever its length), the part after the last
Complement(silences, totalDuration) ==
    LET n == Len(silences)
        head == IF silences[1].start > 0
                THEN << [start |-> 0, end |-> silences[1].start] >>
                ELSE << >>
        mid == [k \in 1..(n - 1) |->
                   [start |-> silences[k].end, end |-> silences[k + 1].start]]
        tail == IF silences[n].end < totalDuration
                THEN << [start |-> silences[n].end, end |-> totalDuration] >>
                ELSE << >>
    IN  head \o mid \o tail

\* a mutant of FilterClips: a clip of exactly one second is dropped
FilterClipsStrict(clips, second) ==
    SelectSeq(clips, LAMBDA clip : clip.end - clip.start > second)

\* contentClips.filter(clip => (clip.end - clip.start) >= 1), the times being
\* in 1/second seconds
FilterClips(clips, second) ==
    SelectSeq(clips, LAMBDA clip : clip.end - clip.start >= second)

\* the state of the App that the model keeps: analysisResult.silenceSegments,
\* audioBuffer.duration, the time unit (second = units per second), the locals
\* contentClips and filteredClips, errorMessage
AppWith(silenceSegments, totalDuration, second) ==
    [ silenceSegments |-> silenceSegments,
      totalDuration |-> totalDuration,
      second |-> second,
      contentClips |-> << >>,
      filteredClips |-> << >>,
      recomplemented |-> << >>,
      errorMessage |-> "",
      pc |-> "analysed" ]

AppIdle == [AppWith(<< >>, 0, 1) EXCEPT !.pc = "idle"]

\* a mutant of HandleExtractContentClips: the complement starts at the first
\* silence, the part of the buffer before it is forgotten
HandleExtractContentClipsNoHead(a) ==
    IF Len(a.silenceSegments) = 0
    THEN [a EXCEPT !.errorMessage = "no silence detected", !.pc = "refused"]
    ELSE LET all == Complement(a.silenceSegments, a.totalDuration)
             clips == IF a.silenceSegments[1].start > 0 THEN Tail(all) ELSE all
             filtered == FilterClips(clips, a.second)
         IN  [a EXCEPT !.contentClips = clips,
                       !.filteredClips = filtered,
                       !.errorMessage = IF Len(filtered) = 0
                                        THEN "no clip of one second or more"
                                        ELSE @,
                       !.pc = IF Len(filtered) = 0 THEN "empty" ELSE "batch"]

\* handleExtractContentClips up to the call of batchProcessAudioClips
HandleExtractContentClips(a) ==
    IF Len(a.silenceSegments) = 0
    THEN [a EXCEPT !.errorMessage = "no silence detected", !.pc = "refused"]
    ELSE LET clips == Complement(a.silenceSegments, a.totalDuration)
             filtered == FilterClips(clips, a.second)
         IN  [a EXCEPT !.contentClips = clips,
                       !.filteredClips = filtered,
                       !.errorMessage = IF Len(filtered) = 0
                                        THEN "no clip of one second or more"
                                        ELSE @,
                       !.pc = IF Len(filtered) = 0 THEN "empty" ELSE "batch"]

\* the same complement taken of the content clips (before the filter), behind
\* the same guard on an empty list
Recomplemented(a) ==
    IF Len(a.contentClips) = 0
    THEN [a EXCEPT !.errorMessage = "no silence detected", !.pc = "refusedTwice"]
    ELSE [a EXCEPT !.recomplemented = Complement(a.contentClips, a.totalDuration),
                   !.pc = "twice"]

----------------------------------------------------------------------------
(* AudioBuffer.  A sample is a number of 1/SampleDen; NaN stands for the    *)
(* float NaN.  A time of the render pipeline is a number of 1/TimeDen       *)
(* seconds.                                                                *)

SampleDen == 1000
TimeDen == 2
NaN == -999999

\* the quotient a / b (b > 0) cut towards zero, as a float product is when it
\* is stored with the model's resolution
TruncDiv(a, b) == IF a >= 0 THEN a \div b ELSE 0 - ((0 - a) \div b)

Abs(x) == IF x < 0 THEN 0 - x ELSE x

RECURSIVE SumSeq(_)
SumSeq(s) == IF Len(s) = 0 THEN 0 ELSE Head(s) + SumSeq(Tail(s))

\* audioContext.createBuffer / an OfflineAudioContext's rendered buffer
AudioBuffer(sampleRate, channels) ==
    [ sampleRate |-> sampleRate,
      numberOfChannels |-> Len(channels),
      length |-> IF Len(channels) = 0 THEN 0 ELSE Len(channels[1]),
      channels |-> channels ]

NoBuffer == AudioBuffer(0, << >>)

\* the buffer with the samples of every channel replaced: samples[c][k] is
\* sample k of channel c (both from 1)
WithSamples(buffer, samples) == [buffer EXCEPT !.channels = samples]

\* the indices of the channels and of the samples of a buffer
Channels(buffer) == 1..buffer.numberOfChannels
Samples(buffer) == 1..buffer.length

----------------------------------------------------------------------------
(* The effect chain *)

\* Math.min(Math.floor(fadeDuration * sampleRate), buffer.length), for a
\* fadeDuration of num / den seconds
FadeSamples(buffer, num, den) ==
    Min((num * buffer.sampleRate) \div den, buffer.length)

\* applyFadeIn, in place: sample i (from 0) of the first fadeInSamples is
\* multiplied by i / fadeInSamples
ApplyFadeIn(buffer, num, den) ==
    LET fadeInSamples == FadeSamples(buffer, num, den)
    IN  WithSamples(buffer,
            [c \in Channels(buffer) |-> [k \in Samples(buffer) |->
            LET data == buffer.channels[c] IN
            IF k <= fadeInSamples
            THEN TruncDiv(data[k] * (k - 1), fadeInSamples)
            ELSE data[k]]])

\* applyFadeOut, in place: sample startIndex + i is multiplied by
\* 1 - i / fadeOutSamples
ApplyFadeOut(buffer, num, den) ==
    LET fadeOutSamples == FadeSamples(buffer, num, den)
        startIndex == buffer.length - fadeOutSamples
    IN  WithSamples(buffer,
            [c \in Channels(buffer) |-> [k \in Samples(buffer) |->
            LET data == buffer.channels[c] IN
            IF k > startIndex
            THEN TruncDiv(data[k] * (fadeOutSamples - (k - 1 - startIndex)),
                          fadeOutSamples)
            ELSE data[k]]])

\* applyNoiseReduction, into a new buffer; amount is noiseReductionAmount in
\* tenths.  The noise floor of a channel is the mean of |sample| over its first
\* min(floor(sampleRate * 0.5), length) samples; with none of them the mean is
\* NaN and no sample is below the threshold.
ApplyNoiseReduction(buffer, amount) ==
    LET noiseSampleLength == Min(buffer.sampleRate \div 2, buffer.length)
    IN  WithSamples(buffer,
            [c \in Channels(buffer) |-> [k \in Samples(buffer) |->
            LET data == buffer.channels[c] IN
            LET noiseSum == SumSeq([j \in 1..noiseSampleLength |-> Abs(data[j])])
                below == /\ noiseSampleLength > 0
                         /\ Abs(data[k]) * noiseSampleLength * 10
                                < noiseSum * (10 + 5 * amount)
            IN  IF below
                THEN TruncDiv(data[k] * (10 - amount), 10)
                ELSE TruncDiv(data[k] * (20 - amount), 20)]])

\* Math.pow(10, targetDb / 20) as a fraction
TargetGain(targetDb) ==
    CASE targetDb = -20 -> [num |-> 1, den |-> 10]
      [] targetDb = -6 -> [num |-> 501, den |-> 1000]
      [] targetDb = -3 -> [num |-> 708, den |-> 1000]
      [] targetDb = 0 -> [num |-> 1, den |-> 1]
      [] targetDb = 20 -> [num |-> 10, den |-> 1]

\* the largest |sample| of all channels; a NaN sample is never greater than
\* the largest so far
MaxAmplitude(buffer) ==
    LET all == {Abs(buffer.channels[c][k]) :
                    c \in 1..buffer.numberOfChannels, k \in 1..buffer.length}
               \ {Abs(NaN)}
    IN  IF all = {} THEN 0 ELSE CHOOSE m \in all : \A x \in all : x <= m

\* a mutant of ApplyNormalization: each channel by its own peak
ApplyNormalizationPerChannel(buffer, targetDb) ==
    LET gain == TargetGain(targetDb)
    IN  WithSamples(buffer,
            [c \in Channels(buffer) |-> [k \in Samples(buffer) |->
            LET data == buffer.channels[c]
                maxAmplitude == MaxAmplitude(AudioBuffer(buffer.sampleRate, <<data>>))
            IN
            IF maxAmplitude = 0 \/ data[k] = NaN
            THEN NaN
            ELSE Max(0 - SampleDen,
                     Min(SampleDen,
                         TruncDiv(data[k] * gain.num * SampleDen,
                                  maxAmplitude * gain.den)))]])

\* a mutant of ApplyNormalization: the gain of the target alone, whatever the
\* peak
ApplyNormalizationFixedGain(buffer, targetDb) ==
    LET gain == TargetGain(targetDb)
    IN  WithSamples(buffer,
            [c \in Channels(buffer) |-> [k \in Samples(buffer) |->
                Max(0 - SampleDen,
                    Min(SampleDen,
                        TruncDiv(buffer.channels[c][k] * gain.num, gain.den)))]])

\* applyNormalization, into a new buffer: every sample times
\* 10^((targetDb - 20 log10(maxAmplitude)) / 20) = 10^(targetDb / 20) / maxAmplitude,
\* then cut to [-1, 1].  With maxAmplitude = 0 the gain is Infinity and every
\* sample (all are 0) becomes 0 * Infinity = NaN, which the cut leaves; a NaN
\* sample stays NaN.
ApplyNormalization(buffer, targetDb) ==
    LET maxAmplitude == MaxAmplitude(buffer)
        gain == TargetGain(targetDb)
    IN  WithSamples(buffer,
            [c \in Channels(buffer) |-> [k \in Samples(buffer) |->
            LET data == buffer.channels[c] IN
            IF maxAmplitude = 0 \/ data[k] = NaN
            THEN NaN
            ELSE LET out == TruncDiv(data[k] * gain.num * SampleDen,
                                     maxAmplitude * gain.den)
                 IN  Max(0 - SampleDen, Min(SampleDen, out))]])

\* one peaking filter at the model's resolution: the filter of gain 0 dB passes
\* the signal unchanged; for another gain the model keeps the filter's gain at
\* its centre frequency, 10^(gain / 20), for every sample
PeakingFilter(x, band) ==
    IF band.gain = 0
    THEN x
    ELSE TruncDiv(x * TargetGain(band.gain).num, TargetGain(band.gain).den)

RECURSIVE Cascade(_, _)
Cascade(x, bands) ==
    IF Len(bands) = 0 THEN x ELSE Cascade(PeakingFilter(x, Head(bands)), Tail(bands))

\* applyEqualizer's render: an OfflineAudioContext of the buffer's channels,
\* length and sampleRate, the source through the filters in series
EqualizerRender(buffer, bands) ==
    WithSamples(buffer,
            [c \in Channels(buffer) |-> [k \in Samples(buffer) |->
            LET data == buffer.channels[c] IN Cascade(data[k], bands)]])

----------------------------------------------------------------------------
(* audioBufferToWav *)

RECURSIVE Pow256(_)
Pow256(k) == IF k = 0 THEN 1 ELSE 256 * Pow256(k - 1)

\* view.setUint16 / view.setUint32(offset, value, true): the n low bytes of
\* value (>= 0), the lowest first
LittleEndian(value, n) ==
    [k \in 1..n |-> (value \div Pow256(k - 1)) % 256]

\* Math.max(-1, Math.min(1, sample)), then sample < 0 ? sample * 0x8000 :
\* sample * 0x7FFF, then setInt16: cut towards zero, NaN written as 0, the two
\* bytes of the two's complement
SampleBytes(sample) ==
    LET clamped == Max(0 - SampleDen, Min(SampleDen, sample))
        int16 == IF sample = NaN THEN 0
                 ELSE IF clamped < 0 THEN TruncDiv(clamped * 32768, SampleDen)
                 ELSE TruncDiv(clamped * 32767, SampleDen)
    IN  LittleEndian(IF int16 < 0 THEN int16 + 65536 ELSE int16, 2)

\* writeString: the char codes of 'RIFF', 'WAVE', 'fmt ' and 'data'
RIFF == <<82, 73, 70, 70>>
WAVE == <<87, 65, 86, 69>>
FMT == <<102, 109, 116, 32>>
DATA == <<100, 97, 116, 97>>

\* a mutant of WavHeader: the byte rate written without the channel count
WavHeaderMonoByteRate(buffer) ==
    LET numOfChannels == buffer.numberOfChannels
        length == buffer.length * numOfChannels * 2 + 44
    IN  RIFF \o LittleEndian(length - 8, 4) \o WAVE \o FMT
        \o LittleEndian(16, 4) \o LittleEndian(1, 2)
        \o LittleEndian(numOfChannels, 2)
        \o LittleEndian(buffer.sampleRate, 4)
        \o LittleEndian(buffer.sampleRate * 2, 4)
        \o LittleEndian(numOfChannels * 2, 2)
        \o LittleEndian(16, 2)
        \o DATA \o LittleEndian(length - 44, 4)

\* the 44 bytes of the header
WavHeader(buffer) ==
    LET numOfChannels == buffer.numberOfChannels
        length == buffer.length * numOfChannels * 2 + 44
    IN  RIFF \o LittleEndian(length - 8, 4) \o WAVE \o FMT
        \o LittleEndian(16, 4) \o LittleEndian(1, 2)
        \o LittleEndian(numOfChannels, 2)
        \o LittleEndian(buffer.sampleRate, 4)
        \o LittleEndian(buffer.sampleRate * numOfChannels * 2, 4)
        \o LittleEndian(numOfChannels * 2, 2)
        \o LittleEndian(16, 2)
        \o DATA \o LittleEndian(length - 44, 4)

\* the bytes after the header: of a mono buffer the samples of channel 0; of any
\* other buffer, frame by frame, the sample of channel 0 then that of channel 1;
\* the ArrayBuffer has buffer.length * numOfChannels * 2 bytes for them and the
\* bytes not written stay 0
WavData(buffer) ==
    LET size == buffer.length * buffer.numberOfChannels * 2
        written == IF buffer.numberOfChannels = 1 THEN 1 ELSE 2
    IN  [b \in 1..size |->
            LET sampleIndex == (b - 1) \div 2
                frame == sampleIndex \div written + 1
                channel == (sampleIndex % written) + 1
            IN  IF frame <= buffer.length
                THEN SampleBytes(buffer.channels[channel][frame])[((b - 1) % 2) + 1]
                ELSE 0]

AudioBufferToWav(buffer) == WavHeader(buffer) \o WavData(buffer)

----------------------------------------------------------------------------
(* processAudioClip *)

\* an options object is a record of the fields that are given
NoOptions == [f \in {} |-> 0]

Has(options, field) == field \in DOMAIN options

\* format.toLowerCase(), on the formats of the model
ToLowerCase(format) ==
    CASE format = "Mp3" -> "mp3"
      [] format = "FLAC" -> "flac"
      [] OTHER -> format

\* getKbpsFromQuality, quality in tenths: qualityMap[format] || qualityMap.mp3,
\* index = min(floor(quality * 10) - 1, length - 1), formatRates[max(0, index)]
GetKbpsFromQuality(quality, format) ==
    LET formatRates ==
            IF format = "ogg"
            THEN <<80, 112, 128, 160, 192, 224, 256>>
            ELSE <<96, 128, 160, 192, 224, 256, 320>>
        index == Min(quality - 1, Len(formatRates) - 1)
    IN  formatRates[Max(0, index) + 1]

\* a mutant of EncodeBlob: the format is compared as given, without
\* toLowerCase
EncodeBlobCaseSensitive(buffer, format, options) ==
    [ bytes |-> AudioBufferToWav(buffer),
      type |-> IF format \in {"mp3", "ogg", "flac", "m4a"}
               THEN "audio/" \o format
               ELSE "audio/wav",
      kbps |-> 0 ]

\* lines 713-753: the switch on the lower-cased format.  Every case encodes
\* with audioBufferToWav; the case sets the MIME type; quality (default 0.8) is
\* only logged, as kbps, for mp3, ogg and m4a (kbps 0: nothing logged).  The
\* Blob is the bytes and the type.
EncodeBlob(buffer, format, options) ==
    LET lower == ToLowerCase(format)
        quality == IF Has(options, "quality") THEN options.quality ELSE 8
    IN  [ bytes |-> AudioBufferToWav(buffer),
          type |-> IF lower \in {"mp3", "ogg", "flac", "m4a"}
                   THEN "audio/" \o lower
                   ELSE "audio/wav",
          kbps |-> IF lower \in {"mp3", "ogg", "m4a"}
                   THEN GetKbpsFromQuality(quality, lower)
                   ELSE 0 ]

NoBlob == [bytes |-> << >>, type |-> ""]

\* a mutant of RenderLength: Math.floor instead of Math.ceil
RenderLengthFloor(buffer, startTime, endTime) ==
    ((endTime - startTime) * buffer.sampleRate) \div TimeDen

\* Math.ceil((endTime - startTime) * originalBuffer.sampleRate); the quotient
\* rounds up for a negative numerator too
RenderLength(buffer, startTime, endTime) ==
    0 - ((0 - (endTime - startTime) * buffer.sampleRate) \div TimeDen)

\* the render of lines 669-686: source.start(0, startTime, endTime - startTime)
\* into a context of RenderLength frames.  Frame k is the source's frame at
\* startTime plus k (the frame at or before a time between two frames), and 0
\* past the end of the source.
ExtractRange(buffer, startTime, endTime) ==
    LET length == RenderLength(buffer, startTime, endTime)
        offset == (startTime * buffer.sampleRate) \div TimeDen
    IN  AudioBuffer(buffer.sampleRate,
            [c \in 1..buffer.numberOfChannels |->
                [k \in 1..length |->
                    IF offset + k <= buffer.length
                    THEN buffer.channels[c][offset + k]
                    ELSE 0]])

\* the state of one call of processAudioClip: its arguments, the place it has
\* reached, renderedBuffer, the stages that have run, the Blob returned, the
\* kbps logged, or the error thrown
ClipStart(originalBuffer, startTime, endTime, format, options) ==
    [ originalBuffer |-> originalBuffer,
      startTime |-> startTime,
      endTime |-> endTime,
      format |-> format,
      options |-> options,
      pc |-> "requested",
      renderedBuffer |-> NoBuffer,
      stages |-> << >>,
      blob |-> NoBlob,
      kbps |-> 0,
      error |-> "" ]

ClipIdle == [ClipStart(NoBuffer, 0, 0, "wav", NoOptions) EXCEPT !.pc = "idle"]

\* a stage has run and left its buffer in renderedBuffer
Ran(c, stage, buffer) ==
    [c EXCEPT !.renderedBuffer = buffer, !.stages = Append(@, stage)]

\* catch (error) { throw new Error(...) }
Failed(c, message) == [c EXCEPT !.pc = "failed", !.error = message]

\* a mutant of FadeDuration: the duration as asked, not capped
FadeDurationUncapped(buffer, duration) == [num |-> duration, den |-> TimeDen]

\* Math.min(duration, renderedBuffer.duration / 2) as a fraction: duration is
\* in 1/TimeDen seconds, renderedBuffer.duration / 2 is length / (2 sampleRate)
FadeDuration(buffer, duration) ==
    IF duration * 2 * buffer.sampleRate <= buffer.length * TimeDen
    THEN [num |-> duration, den |-> TimeDen]
    ELSE [num |-> buffer.length, den |-> 2 * buffer.sampleRate]

\* lines 688-695
FadeStages(c) ==
    LET o == c.options
        faded == IF Has(o, "fadeIn") /\ o.fadeIn > 0
                 THEN LET d == FadeDuration(c.renderedBuffer, o.fadeIn)
                      IN  Ran(c, "fadeIn",
                              ApplyFadeIn(c.renderedBuffer, d.num, d.den))
                 ELSE c
    IN  IF Has(o, "fadeOut") /\ o.fadeOut > 0
        THEN LET d == FadeDuration(faded.renderedBuffer, o.fadeOut)
             IN  Ran(faded, "fadeOut",
                     ApplyFadeOut(faded.renderedBuffer, d.num, d.den))
        ELSE faded

\* lines 697-700
NoiseReductionStage(c) ==
    IF Has(c.options, "noiseReduction") /\ c.options.noiseReduction > 0
    THEN Ran(c, "noiseReduction",
             ApplyNoiseReduction(c.renderedBuffer, c.options.noiseReduction))
    ELSE c

\* options.equalizerBands && options.equalizerBands.length > 0
EqualizerEnabled(options) ==
    Has(options, "equalizerBands") /\ Len(options.equalizerBands) > 0

\* options.normalizeTarget || -3
NormalizeTarget(options) ==
    IF Has(options, "normalizeTarget") /\ options.normalizeTarget # 0
    THEN options.normalizeTarget
    ELSE -3

\* lines 707-711
NormalizationStage(c) ==
    IF Has(c.options, "normalize") /\ c.options.normalize
    THEN Ran(c, "normalize",
             ApplyNormalization(c.renderedBuffer, NormalizeTarget(c.options)))
    ELSE c

\* lines 713-753
EncodeStage(c) ==
    LET encoded == EncodeBlob(c.renderedBuffer, c.format, c.options)
    IN
    [c EXCEPT !.blob = [bytes |-> encoded.bytes, type |-> encoded.type],
              !.kbps = encoded.kbps,
              !.stages = Append(@, "encode"),
              !.pc = "done"]

\* a mutant of AfterExtraction: the equalizer's render is not awaited, the
\* stages after it run on at once
AfterExtractionNoAwait(c) ==
    LET filtered == NoiseReductionStage(FadeStages(c))
    IN  IF EqualizerEnabled(c.options)
        THEN [EncodeStage(NormalizationStage(filtered)) EXCEPT !.pc = "equalizing"]
        ELSE EncodeStage(NormalizationStage(filtered))

\* from the end of the first render to the next await or to the return
AfterExtraction(c) ==
    LET filtered == NoiseReductionStage(FadeStages(c))
    IN  IF EqualizerEnabled(c.options)
        THEN [filtered EXCEPT !.pc = "equalizing"]
        ELSE EncodeStage(NormalizationStage(filtered))

\* from the end of the equalizer's render to the return
AfterEqualizer(c) == EncodeStage(NormalizationStage(c))

----------------------------------------------------------------------------
(* The encoder alone *)

EncIdle == [buffer |-> NoBuffer, bytes |-> << >>, pc |-> "idle"]

----------------------------------------------------------------------------
(* Statistics.  NegInfinity and Infinity stand for the floats -Infinity and *)
(* Infinity, as NaN does for NaN.  A level in dB is kept to the decade      *)
(* below: 20 * log10(x) is 20 * floor(log10(x)).                            *)

NegInfinity == -999998
Infinity == 999998

\* 20 * Math.log10(0.00001)
FloorDb == -100

\* floor(log10(num / den)) for num > 0 and den > 0
RECURSIVE Log10Floor(_, _)
Log10Floor(num, den) ==
    IF num < den THEN Log10Floor(num * 10, den) - 1
    ELSE IF num >= den * 10 THEN Log10Floor(num, den * 10) + 1
    ELSE 0

\* calculateClipStatistics: the samples startSample .. endSample - 1 of channel
\* 0.  A sample outside the channel reads as undefined and makes sum and max
\* NaN; with no sample max stays -Infinity and avg is 0 / 0 or 0 / length;
\* avg || 0.00001 and max || 0.00001 replace 0 and NaN by the floor.
CalculateClipStatistics(buffer, startTime, endTime) ==
    LET startSample == (startTime * buffer.sampleRate) \div TimeDen
        endSample == (endTime * buffer.sampleRate) \div TimeDen
        channelData == buffer.channels[1]
        indices == startSample..(endSample - 1)
        undefined == \E i \in indices : i < 0 \/ i >= Len(channelData)
        length == endSample - startSample
        sum == IF undefined THEN NaN
               ELSE SumSeq([k \in 1..Max(0, length) |->
                               Abs(channelData[startSample + k])])
        max == IF undefined THEN NaN
               ELSE IF indices = {} THEN NegInfinity
               ELSE CHOOSE m \in {Abs(channelData[i + 1]) : i \in indices} :
                       \A i \in indices : Abs(channelData[i + 1]) <= m
        avgFalsy == sum = NaN \/ sum = 0 \/ length = 0
    IN  [ sum |-> sum,
          length |-> length,
          max |-> max,
          avgDb |-> IF avgFalsy THEN FloorDb
                    ELSE 20 * Log10Floor(sum, length * SampleDen),
          peakDb |-> IF max = NaN \/ max = 0 THEN FloorDb
                     ELSE IF max = NegInfinity THEN NaN
                     ELSE 20 * Log10Floor(max, SampleDen) ]

----------------------------------------------------------------------------
(* batchProcessAudioClips *)

\* what the call has not returned
NoResult == [blobs |-> << >>, report |-> << >>, returned |-> FALSE]

\* lines 880-890: the locals, totalDuration summed over the clips
BatchStart(clips, originalBuffer, format, options, hasCallback) ==
    [ clips |-> clips,
      originalBuffer |-> originalBuffer,
      format |-> format,
      options |-> options,
      hasCallback |-> hasCallback,
      totalClips |-> Len(clips),
      i |-> 0,
      blobs |-> << >>,
      clipReports |-> << >>,
      totalDuration |-> SumSeq([k \in 1..Len(clips) |-> clips[k].end - clips[k].start]),
      processedDuration |-> 0,
      progress |-> << >>,
      result |-> NoResult,
      error |-> << >>,
      pc |-> "loop" ]

BatchIdle ==
    [BatchStart(<< >>, NoBuffer, "wav", NoOptions, FALSE) EXCEPT !.pc = "idle"]

\* if (progressCallback) progressCallback(current, total)
Progress(b, current, total) ==
    IF b.hasCallback
    THEN [b EXCEPT !.progress = Append(@, <<current, total>>)]
    ELSE b

\* a mutant of BatchNextClip: the call is made and not awaited, the loop goes
\* on to the next clip
BatchNextClipNoAwait(b) == [Progress(b, b.i, b.totalClips) EXCEPT !.i = @ + 1]

\* lines 895-909: the callback, then the call of processAudioClip for clip i
BatchNextClip(b) == [Progress(b, b.i, b.totalClips) EXCEPT !.pc = "clip"]

\* the call that line 903 makes
BatchClipCall(b) ==
    ClipStart(b.originalBuffer, b.clips[b.i + 1].start, b.clips[b.i + 1].end,
              b.format, b.options)

\* a mutant of BatchClipResolved: the peak is that of the processed clip, the
\* target of the normalization when the clip was normalized
BatchClipResolvedAfterEffects(b, audioBlob) ==
    LET clip == b.clips[b.i + 1]
        clipDuration == clip.end - clip.start
        statistics == CalculateClipStatistics(b.originalBuffer, clip.start, clip.end)
    IN  [b EXCEPT !.blobs = Append(@, audioBlob),
                  !.processedDuration = @ + clipDuration,
                  !.clipReports = Append(@,
                      [ startTime |-> clip.start,
                        endTime |-> clip.end,
                        duration |-> clipDuration,
                        peakDb |-> IF Has(b.options, "normalize") /\ b.options.normalize
                                   THEN NormalizeTarget(b.options)
                                   ELSE statistics.peakDb,
                        avgDb |-> statistics.avgDb ]),
                  !.i = @ + 1,
                  !.pc = "loop"]

\* a mutant of BatchClipResolved: the duration of the clip is not added
BatchClipResolvedNoDuration(b, audioBlob) ==
    LET clip == b.clips[b.i + 1]
        statistics == CalculateClipStatistics(b.originalBuffer, clip.start, clip.end)
    IN  [b EXCEPT !.blobs = Append(@, audioBlob),
                  !.clipReports = Append(@,
                      [ startTime |-> clip.start,
                        endTime |-> clip.end,
                        duration |-> clip.end - clip.start,
                        peakDb |-> statistics.peakDb,
                        avgDb |-> statistics.avgDb ]),
                  !.i = @ + 1,
                  !.pc = "loop"]

\* lines 911-923, after the await: the blob, the duration, the statistics of
\* the clip, the next i
BatchClipResolved(b, audioBlob) ==
    LET clip == b.clips[b.i + 1]
        clipDuration == clip.end - clip.start
        statistics == CalculateClipStatistics(b.originalBuffer, clip.start, clip.end)
    IN  [b EXCEPT !.blobs = Append(@, audioBlob),
                  !.processedDuration = @ + clipDuration,
                  !.clipReports = Append(@,
                      [ startTime |-> clip.start,
                        endTime |-> clip.end,
                        duration |-> clipDuration,
                        peakDb |-> statistics.peakDb,
                        avgDb |-> statistics.avgDb ]),
                  !.i = @ + 1,
                  !.pc = "loop"]

\* a mutant of BatchClipRejected: the clip is skipped and the loop goes on
BatchClipRejectedSkip(b, message) == [b EXCEPT !.i = @ + 1, !.pc = "loop"]

\* lines 942-944: the catch throws a new Error with the message of the clip's
\* error
BatchClipRejected(b, message) ==
    [b EXCEPT !.error = <<"batch failed", message>>, !.pc = "failed"]

\* a mutant of BatchReturn: no callback at the end
BatchReturnNoCallback(b) ==
    [b EXCEPT !.result =
                  [ blobs |-> b.blobs,
                    report |-> [ totalClips |-> b.totalClips,
                                 totalDuration |-> b.totalDuration,
                                 processedDuration |-> b.processedDuration,
                                 clips |-> b.clipReports ],
                    returned |-> TRUE ],
              !.pc = "done"]

\* lines 926-941: the last callback and the return (processingTimeMs is not
\* kept)
BatchReturn(b) ==
    LET called == Progress(b, b.totalClips, b.totalClips)
    IN  [called EXCEPT !.result =
                  [ blobs |-> b.blobs,
                    report |-> [ totalClips |-> b.totalClips,
                                 totalDuration |-> b.totalDuration,
                                 processedDuration |-> b.processedDuration,
                                 clips |-> b.clipReports ],
                    returned |-> TRUE ],
              !.pc = "done"]

\* Math.sqrt of a number of 1/SampleDen^2, in 1/SampleDen, cut down
Sqrt(n) == CHOOSE r \in 0..(2 * SampleDen) : r * r <= n /\ n < (r + 1) * (r + 1)

\* calculateAudioStats: with no sample max and min keep -Infinity and Infinity
\* and mean and rms are 0 / 0; with rms 0 dbFS is 20 * log10(0) = -Infinity;
\* 20 * log10(rms) is taken as 10 * log10(rms^2).  crest is not kept.
CalculateAudioStats(data) ==
    LET length == Len(data)
        sum == SumSeq(data)
        sumSquared == SumSeq([k \in 1..length |-> data[k] * data[k]])
        values == {data[k] : k \in 1..length}
    IN  [ max |-> IF length = 0 THEN NegInfinity
                  ELSE CHOOSE m \in values : \A v \in values : v <= m,
          min |-> IF length = 0 THEN Infinity
                  ELSE CHOOSE m \in values : \A v \in values : m <= v,
          mean |-> IF length = 0 THEN NaN ELSE TruncDiv(sum, length),
          rms |-> IF length = 0 THEN NaN ELSE Sqrt(sumSquared \div length),
          dbFS |-> IF length = 0 THEN NaN
                   ELSE IF sumSquared = 0 THEN NegInfinity
                   ELSE 10 * Log10Floor(sumSquared, length * SampleDen * SampleDen) ]

NoStats == [f \in {} |-> 0]

\* a decoded buffer and the statistics taken of it: those of
\* analyzeAudioFeatures and those of a clip over the whole buffer
StatsOf(buffer) ==
    [ buffer |-> buffer, live |-> NoStats, clip |-> NoStats, pc |-> "decoded" ]

StatsIdle == [StatsOf(NoBuffer) EXCEPT !.pc = "idle"]

\* analyzeAudioFeatures: stats = calculateAudioStats(buffer.getChannelData(0))
AnalyzeAudioFeatures(s) == [s EXCEPT !.live = CalculateAudioStats(s.buffer.channels[1])]

\* the duration of a buffer in 1/TimeDen seconds, cut down
Duration(buffer) == (buffer.length * TimeDen) \div buffer.sampleRate

\* calculateClipStatistics(buffer, 0, buffer.duration)
ClipStatistics(s) ==
    [s EXCEPT !.clip = CalculateClipStatistics(s.buffer, 0, Duration(s.buffer))]

----------------------------------------------------------------------------
(* The effects alone *)

\* a buffer, what is asked of an effect, and the buffers it gives
EffectOn(buffer, options) ==
    [ buffer |-> buffer, options |-> options, once |-> NoBuffer, twice |-> NoBuffer,
      pc |-> "buffer" ]

EffectIdle == [EffectOn(NoBuffer, NoOptions) EXCEPT !.pc = "idle"]

\* the fades of processAudioClip on a rendered buffer
Faded(buffer, options) ==
    FadeStages(Ran(ClipStart(buffer, 0, Duration(buffer), "wav", options),
                   "extract", buffer)).renderedBuffer

----------------------------------------------------------------------------
(* createPreviewBuffer *)

\* lines 1033-1055, from the end of the render to the return: the fades, the
\* noise reduction and the normalization; renderedBuffer is returned
CreatePreviewBuffer(c) ==
    [NormalizationStage(NoiseReductionStage(FadeStages(c))) EXCEPT !.pc = "done"]

----------------------------------------------------------------------------
(* The AudioBuffer objects of concurrent calls.  heap is the sequence of the *)
(* objects made so far; a call holds the index of its renderedBuffer.        *)

\* originalBuffer, the object every call is given
Source == 1

\* a call of processAudioClip or createPreviewBuffer on one range, or of
\* batchProcessAudioClips on a list of ranges: the ranges left (the first is
\* the one in work), the options, the place reached, renderedBuffer
CallStart(kind, clips, options) ==
    [ kind |-> kind, clips |-> clips, options |-> options, pc |-> "requested", ref |-> 0 ]

\* the call as the stages see it: renderedBuffer is the object call.ref
View(h, call) ==
    [ClipStart(h[Source], Head(call.clips).start, Head(call.clips).end, "wav",
               call.options)
        EXCEPT !.renderedBuffer = h[call.ref]]

\* a mutant of FadeTarget: the fades write to originalBuffer
FadeTargetSource(h) == Source

\* the object applyFadeIn and applyFadeOut write to: renderedBuffer, the object
\* startRendering() has just made
FadeTarget(h) == Len(h)

\* a stage that ran has returned a new object (audioContext.createBuffer,
\* startRendering); a stage that did not run has made none
Alloc(h, before, after) ==
    IF after.stages = before.stages THEN h ELSE Append(h, after.renderedBuffer)

\* the normalization and the end of the work on a range: the call returns, or
\* the batch goes on to its next clip
Finish(h, call) ==
    LET c == View(h, call)
        objects == Alloc(h, c, NormalizationStage(c))
    IN  [ heap |-> objects,
          call |-> IF call.kind = "batch" /\ Len(call.clips) > 1
                   THEN [call EXCEPT !.clips = Tail(@), !.pc = "requested", !.ref = 0]
                   ELSE [call EXCEPT !.pc = "done", !.ref = Len(objects)] ]

\* startRendering() resolves with a new object holding the range; the fades
\* write to it, the noise reduction returns another; then the await of the
\* equalizer (not in createPreviewBuffer) or the normalization
AfterRender(h, call) ==
    LET range == Head(call.clips)
        rendered == Append(h, ExtractRange(h[Source], range.start, range.end))
        target == FadeTarget(rendered)
        faded == [rendered EXCEPT ![target] =
                     FadeStages(View(rendered, [call EXCEPT !.ref = target])).renderedBuffer]
        c == View(faded, [call EXCEPT !.ref = Len(rendered)])
        objects == Alloc(faded, c, NoiseReductionStage(c))
    IN  IF call.kind # "preview" /\ EqualizerEnabled(call.options)
        THEN [ heap |-> objects,
               call |-> [call EXCEPT !.pc = "equalizing", !.ref = Len(objects)] ]
        ELSE Finish(objects, [call EXCEPT !.ref = Len(objects)])

\* the equalizer's startRendering() resolves with a new object
AfterEqualized(h, call) ==
    LET objects == Append(h, EqualizerRender(h[call.ref], call.options.equalizerBands))
    IN  Finish(objects, [call EXCEPT !.ref = Len(objects)])

----------------------------------------------------------------------------
(* App: the selection of files.  A file is a number, 0 is null; audioBuffer  *)
(* and analysisResult are kept as the file they were decoded from.           *)

\* the state of the App before a file is chosen; reads holds the calls of
\* handleFileUpload that have not yet given their buffer, each with its
\* number, its file and the await or callback it waits for
FilesIdle ==
    [ audioFiles |-> << >>, currentFileIndex |-> 0, pendingFiles |-> << >>,
      batchUploadModalOpen |-> FALSE, audioFile |-> 0, audioBuffer |-> 0,
      analysisResult |-> 0, isProcessing |-> FALSE, uploads |-> 0, reads |-> {} ]

\* handleFileUpload to its await: lines 179-183
HandleFileUpload(s, file) ==
    [s EXCEPT !.isProcessing = TRUE,
              !.audioFile = file,
              !.uploads = @ + 1,
              !.reads = @ \cup {[call |-> s.uploads + 1, file |-> file, pc |-> "arrayBuffer"]}]

----------------------------------------------------------------------------
(* The detector on every buffer of at most MaxWindows windows *)

\* the lengths of a buffer of n windows: the last window full, or one sample long
LengthsOf(n, windowSize) ==
    IF n = 0 THEN {0} ELSE {n * windowSize, (n - 1) * windowSize + 1}

InitDetect ==
    /\ files = FilesIdle
    /\ calls = << >>
    /\ heap = << >>
    /\ preview = ClipIdle
    /\ fx = EffectIdle
    /\ stats = StatsIdle
    /\ batch = BatchIdle
    /\ \E sampleRate \in SampleRates, n \in 0..MaxWindows :
         \E length \in LengthsOf(n, WindowSize(sampleRate)),
            windows \in [1..n -> EnergyLevels],
            thresholdDB \in ThresholdsDB,
            minSilenceDuration \in MinSilenceDurations :
              det = DetectStart(sampleRate, length, windows, thresholdDB,
                                minSilenceDuration)
    /\ app = AppIdle
    /\ render = ClipIdle
    /\ enc = EncIdle

DetectWindow ==
    /\ det.pc = "loop"
    /\ det.i < det.length
    /\ det' = DetectStep(det)
    /\ UNCHANGED <<app, render, enc, batch, stats, fx, preview, heap, calls, files>>

DetectFinish ==
    /\ det.pc = "loop"
    /\ det.i >= det.length
    /\ det' = DetectEnd(det)
    /\ UNCHANGED <<app, render, enc, batch, stats, fx, preview, heap, calls, files>>

NextDetect == DetectWindow \/ DetectFinish

SpecDetect == InitDetect /\ [][NextDetect]_vars

----------------------------------------------------------------------------
(* The detector on a buffer with one tone, then the content extraction *)

\* the lengths, in windows, of the buffers with a tone
MaxToneWindows == 44

\* one second and the 10 s of the end-to-end case, in windows of 50 ms
WindowsPerSecond == 20
EndToEndWindows == 10 * WindowsPerSecond

\* the energy of a window of the tone (amplitude 0.5)
ToneEnergy == EnergyDen \div 4

ToneSampleRates == {20, 44100}

\* minSilenceDuration: one window (0.05 s) and the 0.5 s of the end-to-end case
ToneMinSilenceDurations == {1, 10}

\* windows first + 1 .. last above the threshold, the others silent
ToneWindows(n, first, last) ==
    [k \in 1..n |-> IF first < k /\ k <= last THEN ToneEnergy ELSE 0]

\* the tone runs from window boundary first to window boundary last: it lasts
\* one second or more, and the silence before and after it is at least
\* minSilenceDuration
ToneShapes(n, minSilenceDuration) ==
    {<<first, last>> \in (0..n) \X (0..n) :
        /\ last - first >= WindowsPerSecond
        /\ first * DurationDen >= minSilenceDuration * WindowsPerSecond
        /\ (n - last) * DurationDen >= minSilenceDuration * WindowsPerSecond}

InitTone ==
    /\ files = FilesIdle
    /\ calls = << >>
    /\ heap = << >>
    /\ preview = ClipIdle
    /\ fx = EffectIdle
    /\ stats = StatsIdle
    /\ batch = BatchIdle
    /\ \E sampleRate \in ToneSampleRates,
          n \in {MaxToneWindows, EndToEndWindows},
          minSilenceDuration \in ToneMinSilenceDurations :
         \E shape \in IF n = EndToEndWindows
                      THEN {<<80, 120>>}
                      ELSE ToneShapes(n, minSilenceDuration) :
            det = DetectStart(sampleRate, n * WindowSize(sampleRate),
                              ToneWindows(n, shape[1], shape[2]), -50,
                              minSilenceDuration)
    /\ app = AppIdle
    /\ render = ClipIdle
    /\ enc = EncIdle

\* handleFileUpload, the decode callback: setAnalysisResult with the detector's
\* silenceSegments; audioBuffer.duration = length / sampleRate.  The times stay
\* sample offsets, so one second is sampleRate units.
SetAnalysisResult ==
    /\ det.pc = "done"
    /\ app.pc = "idle"
    /\ app' = AppWith(det.segments, det.length, det.sampleRate)
    /\ UNCHANGED <<det, render, enc, batch, stats, fx, preview, heap, calls, files>>

ExtractContentClips ==
    /\ app.pc = "analysed"
    /\ app' = HandleExtractContentClips(app)
    /\ UNCHANGED <<det, render, enc, batch, stats, fx, preview, heap, calls, files>>

NextTone ==
    \/ DetectWindow
    \/ DetectFinish
    \/ SetAnalysisResult
    \/ ExtractContentClips

SpecTone == InitTone /\ [][NextTone]_vars

----------------------------------------------------------------------------
(* The content extraction on every sorted list of silences *)

\* the longest buffer, in 1/TimeDen seconds, and the longest list of silences
MaxDuration == 7
MaxSilences == 3

IntervalsIn(duration) ==
    {[start |-> x, end |-> y] : <<x, y>> \in
        {p \in (0..duration) \X (0..duration) : p[1] < p[2]}}

\* the lists analysisResult.silenceSegments can hold: at most n intervals of
\* [from, duration], ascending, each starting at or after the end of the one
\* before
RECURSIVE SilenceListsFrom(_, _, _)
SilenceListsFrom(from, duration, n) ==
    IF n = 0
    THEN {<< >>}
    ELSE {<< >>} \cup
         UNION {{<<first>> \o rest :
                    rest \in SilenceListsFrom(first.end, duration, n - 1)} :
                first \in {i \in IntervalsIn(duration) : i.start >= from}}

SilenceLists(duration) == SilenceListsFrom(0, duration, MaxSilences)

InitExtract ==
    /\ files = FilesIdle
    /\ calls = << >>
    /\ heap = << >>
    /\ preview = ClipIdle
    /\ fx = EffectIdle
    /\ stats = StatsIdle
    /\ batch = BatchIdle
    /\ det = DetectIdle
    /\ render = ClipIdle
    /\ enc = EncIdle
    /\ \E duration \in 1..MaxDuration :
         \E silences \in SilenceLists(duration) :
            app = AppWith(silences, duration, TimeDen)

Recomplement ==
    /\ app.pc \in {"empty", "batch"}
    /\ app' = Recomplemented(app)
    /\ UNCHANGED <<det, render, enc, batch, stats, fx, preview, heap, calls, files>>

NextExtract == ExtractContentClips \/ Recomplement

SpecExtract == InitExtract /\ [][NextExtract]_vars

----------------------------------------------------------------------------
(* processAudioClip on every request *)

\* the latest startTime and endTime, in 1/TimeDen seconds
MaxTime == 3

\* originalBuffer: 4 frames at 3 Hz, mono (with a silent start) and stereo
Sources ==
    { AudioBuffer(3, << <<0, 0, 800, -400>> >>),
      AudioBuffer(3, << <<500, -1000, 250, -250>>, <<-125, 0, 1000, 40>> >>) }

Formats == {"wav", "Mp3", "ogg", "FLAC", "m4a", "aac"}

FadeInChoices == {NoOptions, [fadeIn |-> 0], [fadeIn |-> 1]}
FadeOutChoices == {NoOptions, [fadeOut |-> 1]}
NoiseReductionChoices == {[noiseReduction |-> 0], [noiseReduction |-> 3]}
EqualizerChoices ==
    { NoOptions,
      [equalizerBands |-> << >>],
      [equalizerBands |-> << [frequency |-> 1000, gain |-> 0, q |-> 1],
                             [frequency |-> 3000, gain |-> -20, q |-> 1] >>] }
NormalizeChoices ==
    { NoOptions,
      [normalize |-> TRUE],
      [normalize |-> TRUE, normalizeTarget |-> -20],
      [normalize |-> TRUE, normalizeTarget |-> 0] }
QualityChoices == {NoOptions, [quality |-> 5]}

OptionsChoices ==
    {a @@ b @@ c @@ d @@ e @@ f :
        a \in FadeInChoices, b \in FadeOutChoices, c \in NoiseReductionChoices,
        d \in EqualizerChoices, e \in NormalizeChoices, f \in QualityChoices}

InitRender ==
    /\ files = FilesIdle
    /\ calls = << >>
    /\ heap = << >>
    /\ preview = ClipIdle
    /\ fx = EffectIdle
    /\ stats = StatsIdle
    /\ batch = BatchIdle
    /\ det = DetectIdle
    /\ app = AppIdle
    /\ enc = EncIdle
    /\ \E originalBuffer \in Sources, startTime \in -1..MaxTime, endTime \in 0..MaxTime,
          format \in Formats, options \in OptionsChoices :
         render = ClipStart(originalBuffer, startTime, endTime, format, options)

\* lines 668-686, to the first await: new OfflineAudioContext throws for a
\* length that is not positive, source.start for a negative offset
BeginProcessAudioClip ==
    /\ render.pc = "requested"
    /\ render' = IF RenderLength(render.originalBuffer, render.startTime, render.endTime) <= 0
                  THEN Failed(render, "the number of frames must be positive")
                  ELSE IF render.startTime < 0
                  THEN Failed(render, "the offset must not be negative")
                  ELSE [render EXCEPT !.pc = "extracting"]
    /\ UNCHANGED <<det, app, enc, batch, stats, fx, preview, heap, calls, files>>

\* context.startRendering() resolves: the stages to the next await or the return
ExtractionComplete ==
    /\ render.pc = "extracting"
    /\ render' = AfterExtraction(
                  Ran(render, "extract",
                      ExtractRange(render.originalBuffer, render.startTime, render.endTime)))
    /\ UNCHANGED <<det, app, enc, batch, stats, fx, preview, heap, calls, files>>

\* the equalizer's startRendering() resolves
EqualizerComplete ==
    /\ render.pc = "equalizing"
    /\ render' = AfterEqualizer(
                  Ran(render, "equalizer",
                      EqualizerRender(render.renderedBuffer, render.options.equalizerBands)))
    /\ UNCHANGED <<det, app, enc, batch, stats, fx, preview, heap, calls, files>>

\* a startRendering() rejects: the catch rethrows
RenderingRejected ==
    /\ render.pc \in {"extracting", "equalizing"}
    /\ render' = Failed(render, "rendering failed")
    /\ UNCHANGED <<det, app, enc, batch, stats, fx, preview, heap, calls, files>>

NextRender ==
    \/ BeginProcessAudioClip
    \/ ExtractionComplete
    \/ EqualizerComplete
    \/ RenderingRejected

SpecRender == InitRender /\ [][NextRender]_vars

----------------------------------------------------------------------------
(* audioBufferToWav on every buffer *)

\* the longest encoded buffer, in frames
MaxWavLength == 2

WavSampleRates == {8000, 44100}
WavChannelCounts == {1, 2, 3}

\* samples: below -1, just below 0, between 0 and 1
WavSamples == {-1250, -1, 500}

InitWav ==
    /\ files = FilesIdle
    /\ calls = << >>
    /\ heap = << >>
    /\ preview = ClipIdle
    /\ fx = EffectIdle
    /\ stats = StatsIdle
    /\ batch = BatchIdle
    /\ det = DetectIdle
    /\ app = AppIdle
    /\ render = ClipIdle
    /\ \E sampleRate \in WavSampleRates, n \in WavChannelCounts,
          length \in 0..MaxWavLength :
         \E channels \in [1..n -> [1..length -> WavSamples]] :
            enc = [buffer |-> AudioBuffer(sampleRate, channels),
                   bytes |-> << >>,
                   pc |-> "buffer"]

WavEncode ==
    /\ enc.pc = "buffer"
    /\ enc' = [enc EXCEPT !.bytes = AudioBufferToWav(enc.buffer), !.pc = "encoded"]
    /\ UNCHANGED <<det, app, render, batch, stats, fx, preview, heap, calls, files>>

NextWav == WavEncode

SpecWav == InitWav /\ [][NextWav]_vars

----------------------------------------------------------------------------
(* batchProcessAudioClips on every list of clips *)

\* the longest list of clips
MaxClips == 3

\* clips of the source of 4 frames at 3 Hz (1.33 s), in 1/TimeDen seconds: two
\* inside it, one of no length, one that ends before it starts, one that ends
\* after the source
BatchRanges ==
    { [start |-> 0, end |-> 1], [start |-> 1, end |-> 2], [start |-> 2, end |-> 2],
      [start |-> 2, end |-> 1], [start |-> 1, end |-> 3] }

BatchOptions ==
    { NoOptions,
      [fadeIn |-> 1, normalize |-> TRUE, quality |-> 5],
      [equalizerBands |-> << [frequency |-> 1000, gain |-> -20, q |-> 1] >>] }

ClipLists == UNION {[1..n -> BatchRanges] : n \in 0..MaxClips}

InitBatch ==
    /\ files = FilesIdle
    /\ calls = << >>
    /\ heap = << >>
    /\ preview = ClipIdle
    /\ fx = EffectIdle
    /\ stats = StatsIdle
    /\ det = DetectIdle
    /\ app = AppIdle
    /\ render = ClipIdle
    /\ enc = EncIdle
    /\ \E clips \in ClipLists, originalBuffer \in Sources, options \in BatchOptions,
          hasCallback \in BOOLEAN :
         batch = BatchStart(clips, originalBuffer, "ogg", options, hasCallback)

\* the loop reaches clip i: the callback, then processAudioClip is called
BatchCallsProcessAudioClip ==
    /\ batch.pc = "loop"
    /\ batch.i < Len(batch.clips)
    /\ batch' = BatchNextClip(batch)
    /\ render' = BatchClipCall(batch)
    /\ UNCHANGED <<det, app, enc, stats, fx, preview, heap, calls, files>>

\* a step of the processAudioClip that the batch awaits
BatchAwaitsProcessAudioClip ==
    /\ batch.pc = "clip"
    /\ \/ BeginProcessAudioClip
       \/ ExtractionComplete
       \/ EqualizerComplete
       \/ RenderingRejected

\* the awaited promise resolves with the Blob
BatchClipDone ==
    /\ batch.pc = "clip"
    /\ render.pc = "done"
    /\ batch' = BatchClipResolved(batch, render.blob)
    /\ render' = [render EXCEPT !.pc = "returned"]
    /\ UNCHANGED <<det, app, enc, stats, fx, preview, heap, calls, files>>

\* the awaited promise rejects
BatchClipFailed ==
    /\ batch.pc = "clip"
    /\ render.pc = "failed"
    /\ batch' = BatchClipRejected(batch, render.error)
    /\ render' = [render EXCEPT !.pc = "thrown"]
    /\ UNCHANGED <<det, app, enc, stats, fx, preview, heap, calls, files>>

\* the loop has ended
BatchReturns ==
    /\ batch.pc = "loop"
    /\ batch.i >= Len(batch.clips)
    /\ batch' = BatchReturn(batch)
    /\ UNCHANGED <<det, app, render, enc, stats, fx, preview, heap, calls, files>>

NextBatch ==
    \/ BatchCallsProcessAudioClip
    \/ BatchAwaitsProcessAudioClip
    \/ BatchClipDone
    \/ BatchClipFailed
    \/ BatchReturns

SpecBatch == InitBatch /\ [][NextBatch]_vars

----------------------------------------------------------------------------
(* The statistics of every buffer *)

\* the longest buffer of which statistics are taken, in frames
MaxStatsLength == 3

StatsSamples == {-500, 0, 250, 1000}

InitStats ==
    /\ files = FilesIdle
    /\ calls = << >>
    /\ heap = << >>
    /\ preview = ClipIdle
    /\ fx = EffectIdle
    /\ det = DetectIdle
    /\ app = AppIdle
    /\ render = ClipIdle
    /\ enc = EncIdle
    /\ batch = BatchIdle
    /\ \E length \in 0..MaxStatsLength :
         \E data \in [1..length -> StatsSamples] :
            stats = StatsOf(AudioBuffer(TimeDen, <<data>>))

LiveStatistics ==
    /\ stats.pc = "decoded"
    /\ stats.live = NoStats
    /\ stats' = AnalyzeAudioFeatures(stats)
    /\ UNCHANGED <<det, app, render, enc, batch, fx, preview, heap, calls, files>>

ClipStatisticsTaken ==
    /\ stats.pc = "decoded"
    /\ stats.clip = NoStats
    /\ stats' = ClipStatistics(stats)
    /\ UNCHANGED <<det, app, render, enc, batch, fx, preview, heap, calls, files>>

NextStats == LiveStatistics \/ ClipStatisticsTaken

SpecStats == InitStats /\ [][NextStats]_vars

----------------------------------------------------------------------------
(* applyNormalization, once and again, on every buffer *)

\* the longest normalized buffer, in frames
MaxNormLength == 2

\* samples: beyond -1, small, 0, large
NormSamples == {-1250, -50, 0, 800}

NormTargets == {-20, -6, -3, 0, 20}

InitNormalize ==
    /\ files = FilesIdle
    /\ calls = << >>
    /\ heap = << >>
    /\ preview = ClipIdle
    /\ det = DetectIdle
    /\ app = AppIdle
    /\ render = ClipIdle
    /\ enc = EncIdle
    /\ batch = BatchIdle
    /\ stats = StatsIdle
    /\ \E n \in 1..2, length \in 1..MaxNormLength, targetDb \in NormTargets :
         \E channels \in [1..n -> [1..length -> NormSamples]] :
            fx = EffectOn(AudioBuffer(3, channels),
                          [normalize |-> TRUE, normalizeTarget |-> targetDb])

NormalizeOnce ==
    /\ fx.pc = "buffer"
    /\ fx' = [fx EXCEPT !.once = ApplyNormalization(fx.buffer, fx.options.normalizeTarget),
                        !.pc = "once"]
    /\ UNCHANGED <<det, app, render, enc, batch, stats, preview, heap, calls, files>>

NormalizeAgain ==
    /\ fx.pc = "once"
    /\ fx' = [fx EXCEPT !.twice = ApplyNormalization(fx.once, fx.options.normalizeTarget),
                        !.pc = "twice"]
    /\ UNCHANGED <<det, app, render, enc, batch, stats, preview, heap, calls, files>>

NextNormalize == NormalizeOnce \/ NormalizeAgain

SpecNormalize == InitNormalize /\ [][NextNormalize]_vars

----------------------------------------------------------------------------
(* The fades of processAudioClip on every buffer *)

\* the longest faded buffer, in frames, and the longest fade, in 1/TimeDen s
MaxFadeLength == 5
MaxFade == 4

\* sample k of every channel is k / 10, so that every change shows
Ramp(sampleRate, n, length) ==
    AudioBuffer(sampleRate, [c \in 1..n |-> [k \in 1..length |-> 100 * k]])

FadeChoices(field) ==
    {NoOptions} \cup {[f \in {field} |-> duration] : duration \in 0..MaxFade}

InitFade ==
    /\ files = FilesIdle
    /\ calls = << >>
    /\ heap = << >>
    /\ preview = ClipIdle
    /\ det = DetectIdle
    /\ app = AppIdle
    /\ render = ClipIdle
    /\ enc = EncIdle
    /\ batch = BatchIdle
    /\ stats = StatsIdle
    /\ \E sampleRate \in {3, 4}, n \in 1..2, length \in 1..MaxFadeLength,
          a \in FadeChoices("fadeIn"), b \in FadeChoices("fadeOut") :
            fx = EffectOn(Ramp(sampleRate, n, length), a @@ b)

ApplyFades ==
    /\ fx.pc = "buffer"
    /\ fx' = [fx EXCEPT !.once = Faded(fx.buffer, fx.options), !.pc = "faded"]
    /\ UNCHANGED <<det, app, render, enc, batch, stats, preview, heap, calls, files>>

NextFade == ApplyFades

SpecFade == InitFade /\ [][NextFade]_vars

----------------------------------------------------------------------------
(* processAudioClip and createPreviewBuffer on the same request *)

\* what handlePreviewWithEffects and the export pass
PreviewOptions ==
    { NoOptions,
      [fadeIn |-> 1, fadeOut |-> 1],
      [noiseReduction |-> 3, normalize |-> TRUE, normalizeTarget |-> -6],
      [equalizerBands |-> << >>, normalize |-> TRUE],
      [normalize |-> TRUE, normalizeTarget |-> 0],
      [equalizerBands |-> <<[frequency |-> 1000, gain |-> 0, q |-> 1]>>],
      [equalizerBands |-> <<[frequency |-> 1000, gain |-> -20, q |-> 1]>>, fadeIn |-> 1] }

InitPreview ==
    /\ files = FilesIdle
    /\ calls = << >>
    /\ heap = << >>
    /\ det = DetectIdle
    /\ app = AppIdle
    /\ enc = EncIdle
    /\ batch = BatchIdle
    /\ stats = StatsIdle
    /\ fx = EffectIdle
    /\ \E originalBuffer \in Sources, startTime \in -1..MaxTime, endTime \in 0..MaxTime,
          options \in PreviewOptions :
          /\ render = ClipStart(originalBuffer, startTime, endTime, "wav", options)
          /\ preview = ClipStart(originalBuffer, startTime, endTime, "wav", options)

\* lines 1015-1031, to the await: the constructor and source.start throw as in
\* processAudioClip
BeginCreatePreviewBuffer ==
    /\ preview.pc = "requested"
    /\ preview' = IF RenderLength(preview.originalBuffer, preview.startTime, preview.endTime) <= 0
                  THEN Failed(preview, "the number of frames must be positive")
                  ELSE IF preview.startTime < 0
                  THEN Failed(preview, "the offset must not be negative")
                  ELSE [preview EXCEPT !.pc = "extracting"]
    /\ UNCHANGED <<det, app, render, enc, batch, stats, fx, heap, calls, files>>

\* context.startRendering() resolves
PreviewRendered ==
    /\ preview.pc = "extracting"
    /\ preview' = CreatePreviewBuffer(
                    Ran(preview, "extract",
                        ExtractRange(preview.originalBuffer, preview.startTime,
                                     preview.endTime)))
    /\ UNCHANGED <<det, app, render, enc, batch, stats, fx, heap, calls, files>>

\* context.startRendering() rejects: the catch rethrows
PreviewRenderingRejected ==
    /\ preview.pc = "extracting"
    /\ preview' = Failed(preview, "rendering failed")
    /\ UNCHANGED <<det, app, render, enc, batch, stats, fx, heap, calls, files>>

NextPreview ==
    \/ BeginProcessAudioClip
    \/ ExtractionComplete
    \/ EqualizerComplete
    \/ RenderingRejected
    \/ BeginCreatePreviewBuffer
    \/ PreviewRendered
    \/ PreviewRenderingRejected

SpecPreview == InitPreview /\ [][NextPreview]_vars

----------------------------------------------------------------------------
(* One call of each function on the same originalBuffer, their steps        *)
(* interleaved at the awaits                                                *)

Callers == {"process", "preview", "batch"}

\* ranges in 1/TimeDen s of the 4 frames at 3 Hz
CallRanges == {[start |-> 0, end |-> 2], [start |-> 1, end |-> 2]}

CallOptions ==
    { [fadeIn |-> 1, fadeOut |-> 1],
      [fadeIn |-> 1, noiseReduction |-> 3, normalize |-> TRUE],
      [fadeOut |-> 1, normalize |-> TRUE,
       equalizerBands |-> <<[frequency |-> 1000, gain |-> -20, q |-> 1]>>] }

InitHeap ==
    /\ files = FilesIdle
    /\ det = DetectIdle
    /\ app = AppIdle
    /\ render = ClipIdle
    /\ enc = EncIdle
    /\ batch = BatchIdle
    /\ stats = StatsIdle
    /\ fx = EffectIdle
    /\ preview = ClipIdle
    /\ \E originalBuffer \in Sources : heap = <<originalBuffer>>
    /\ \E ranges \in [Callers -> CallRanges], options \in [Callers -> CallOptions] :
          calls = [k \in Callers |->
                     CallStart(k,
                               IF k = "batch"
                               THEN <<ranges[k], [start |-> 0, end |-> 1]>>
                               ELSE <<ranges[k]>>,
                               options[k])]

\* to the first await of the work on a range
CallBegins(k) ==
    /\ calls[k].pc = "requested"
    /\ calls' = [calls EXCEPT ![k].pc = "extracting"]
    /\ UNCHANGED <<det, app, render, enc, batch, stats, fx, preview, heap, files>>

CallRendered(k) ==
    /\ calls[k].pc = "extracting"
    /\ heap' = AfterRender(heap, calls[k]).heap
    /\ calls' = [calls EXCEPT ![k] = AfterRender(heap, calls[k]).call]
    /\ UNCHANGED <<det, app, render, enc, batch, stats, fx, preview, files>>

CallEqualized(k) ==
    /\ calls[k].pc = "equalizing"
    /\ heap' = AfterEqualized(heap, calls[k]).heap
    /\ calls' = [calls EXCEPT ![k] = AfterEqualized(heap, calls[k]).call]
    /\ UNCHANGED <<det, app, render, enc, batch, stats, fx, preview, files>>

\* a startRendering() rejects: the call throws
CallRejected(k) ==
    /\ calls[k].pc \in {"extracting", "equalizing"}
    /\ calls' = [calls EXCEPT ![k].pc = "failed"]
    /\ UNCHANGED <<det, app, render, enc, batch, stats, fx, preview, heap, files>>

NextHeap ==
    \E k \in Callers :
        \/ CallBegins(k)
        \/ CallRendered(k)
        \/ CallEqualized(k)
        \/ CallRejected(k)

SpecHeap == InitHeap /\ [][NextHeap]_vars

----------------------------------------------------------------------------
(* applyNoiseReduction on every buffer *)

\* the longest buffer, in frames
MaxNoiseLength == 2

\* samples that the factors in tenths and twentieths scale exactly
NoiseSamples == {-400, 0, 20, 1000}

\* noiseReductionAmount from 0 to 1, in tenths
NoiseAmounts == 0..10

InitNoise ==
    /\ files = FilesIdle
    /\ det = DetectIdle
    /\ app = AppIdle
    /\ render = ClipIdle
    /\ enc = EncIdle
    /\ batch = BatchIdle
    /\ stats = StatsIdle
    /\ preview = ClipIdle
    /\ heap = << >>
    /\ calls = << >>
    /\ \E sampleRate \in {1, 2, 4}, n \in 1..2, length \in 1..MaxNoiseLength,
          amount \in NoiseAmounts :
         \E channels \in [1..n -> [1..length -> NoiseSamples]] :
            fx = EffectOn(AudioBuffer(sampleRate, channels), [noiseReduction |-> amount])

ReduceNoise ==
    /\ fx.pc = "buffer"
    /\ fx' = [fx EXCEPT !.once = ApplyNoiseReduction(fx.buffer, fx.options.noiseReduction),
                        !.pc = "reduced"]
    /\ UNCHANGED <<det, app, render, enc, batch, stats, preview, heap, calls, files>>

NextNoise == ReduceNoise

SpecNoise == InitNoise /\ [][NextNoise]_vars

----------------------------------------------------------------------------
(* The selections of files and the decodes they start, in every order *)

\* the calls of handleFileUpload in one run
MaxUploads == 3

\* the lists of files dropped or chosen at once
FileLists == {<<1>>, <<2>>, <<1, 2>>, <<3, 1, 2>>}

InitFiles ==
    /\ det = DetectIdle
    /\ app = AppIdle
    /\ render = ClipIdle
    /\ enc = EncIdle
    /\ batch = BatchIdle
    /\ stats = StatsIdle
    /\ fx = EffectIdle
    /\ preview = ClipIdle
    /\ heap = << >>
    /\ calls = << >>
    /\ files = FilesIdle

\* handleBatchFileUpload: one file is opened at once, several wait for the
\* confirmation
HandleBatchFileUpload ==
    /\ files.uploads < MaxUploads
    /\ \E list \in FileLists :
          files' = IF Len(list) = 1
                   THEN HandleFileUpload(files, list[1])
                   ELSE [files EXCEPT !.pendingFiles = list,
                                      !.batchUploadModalOpen = TRUE]
    /\ UNCHANGED <<det, app, render, enc, batch, stats, fx, preview, heap, calls>>

\* the button of the dialog
ConfirmBatchUpload ==
    /\ files.uploads < MaxUploads
    /\ files.batchUploadModalOpen
    /\ Len(files.pendingFiles) # 0
    /\ files' = [HandleFileUpload(files, files.pendingFiles[1])
                    EXCEPT !.audioFiles = files.pendingFiles,
                           !.currentFileIndex = 0,
                           !.batchUploadModalOpen = FALSE]
    /\ UNCHANGED <<det, app, render, enc, batch, stats, fx, preview, heap, calls>>

SwitchToNextFile ==
    /\ files.uploads < MaxUploads
    /\ files.currentFileIndex < Len(files.audioFiles) - 1
    /\ files' = [HandleFileUpload(files, files.audioFiles[files.currentFileIndex + 2])
                    EXCEPT !.currentFileIndex = files.currentFileIndex + 1]
    /\ UNCHANGED <<det, app, render, enc, batch, stats, fx, preview, heap, calls>>

SwitchToPrevFile ==
    /\ files.uploads < MaxUploads
    /\ files.currentFileIndex > 0
    /\ files' = [HandleFileUpload(files, files.audioFiles[files.currentFileIndex])
                    EXCEPT !.currentFileIndex = files.currentFileIndex - 1]
    /\ UNCHANGED <<det, app, render, enc, batch, stats, fx, preview, heap, calls>>

\* file.arrayBuffer() resolves: decodeAudioData is called with the callback and
\* not awaited, finally sets isProcessing to false (lines 183-207)
ArrayBufferResolved ==
    /\ \E read \in files.reads :
          /\ read.pc = "arrayBuffer"
          /\ files' = [files EXCEPT
                          !.reads = (@ \ {read}) \cup {[read EXCEPT !.pc = "decode"]},
                          !.isProcessing = FALSE]
    /\ UNCHANGED <<det, app, render, enc, batch, stats, fx, preview, heap, calls>>

\* the callback of decodeAudioData: setAudioBuffer, the analysis,
\* setAnalysisResult (lines 186-202)
DecodeCallback ==
    /\ \E read \in files.reads :
          /\ read.pc = "decode"
          /\ files' = [files EXCEPT !.reads = @ \ {read},
                                    !.audioBuffer = read.file,
                                    !.analysisResult = read.file]
    /\ UNCHANGED <<det, app, render, enc, batch, stats, fx, preview, heap, calls>>

NextFiles ==
    \/ HandleBatchFileUpload
    \/ ConfirmBatchUpload
    \/ SwitchToNextFile
    \/ SwitchToPrevFile
    \/ ArrayBufferResolved
    \/ DecodeCallback

SpecFiles == InitFiles /\ [][NextFiles]_vars

----------------------------------------------------------------------------
(* Claims about detectVoiceThreshold (SpecDetect) *)

\* C1: in every state of the detector, the silence intervals found so far (and
\* so the list returned) are ascending by start, each starts at or after the
\* end of the one before it, and each lasts at least minSilenceDuration.
C1_SegmentsSortedDisjointLong ==
    \A k \in 1..Len(det.segments) :
        /\ LongEnough(det.segments[k].start, det.segments[k].end,
                      det.sampleRate, det.minSilenceDuration)
        /\ k > 1 => /\ det.segments[k].start >= det.segments[k - 1].start
                    /\ det.segments[k].start >= det.segments[k - 1].end

\* the detector has returned two intervals under a positive minSilenceDuration
C1_Witness ==
    /\ det.pc = "done"
    /\ Len(det.segments) >= 2
    /\ det.minSilenceDuration > 0

\* C2: inSilence goes from false to true at a window only if that window and
\* the window before it are both below the threshold.
C2_SilenceStartNeedsTwoSilentWindows ==
    [][(~det.inSilence /\ det'.inSilence) =>
          /\ WindowAt(det) >= 2
          /\ RmsBelow(det.windows[WindowAt(det)], det.thresholdDB)
          /\ RmsBelow(det.windows[WindowAt(det) - 1], det.thresholdDB)]_vars

\* C3: inSilence goes from true to false at a window only if that window and
\* the window before it are both at or above the threshold; while the loop
\* stays in silence the open interval keeps its start and no interval is
\* committed, so one voiced window between silent ones neither ends nor splits
\* the interval.
C3_SilenceEndNeedsTwoVoicedWindows ==
    [][/\ (det.inSilence /\ ~det'.inSilence /\ det.pc = "loop" /\ det'.pc = "loop") =>
             /\ WindowAt(det) >= 2
             /\ ~RmsBelow(det.windows[WindowAt(det)], det.thresholdDB)
             /\ ~RmsBelow(det.windows[WindowAt(det) - 1], det.thresholdDB)
       /\ (det.inSilence /\ det'.inSilence /\ det'.pc = "loop") =>
             /\ det'.silenceStart = det.silenceStart
             /\ det'.segments = det.segments
       /\ (det.inSilence /\ det.pc = "loop" /\ det'.pc = "loop" /\ WindowAt(det) >= 2
             /\ RmsBelow(det.windows[WindowAt(det) - 1], det.thresholdDB)) =>
             det'.inSilence]_vars

\* silence was ended by two voiced windows, and the committed interval spans a
\* single voiced window that had silent windows on both sides
C3_Witness ==
    \E s \in {det.segments[k] : k \in 1..Len(det.segments)} :
        /\ s.end < det.i
        /\ \E k \in 2..(Len(det.windows) - 1) :
              /\ ~RmsBelow(det.windows[k], det.thresholdDB)
              /\ RmsBelow(det.windows[k - 1], det.thresholdDB)
              /\ RmsBelow(det.windows[k + 1], det.thresholdDB)
              /\ s.start <= (k - 1) * WindowSize(det.sampleRate)
              /\ k * WindowSize(det.sampleRate) <= s.end

----------------------------------------------------------------------------
(* Claims about the buffer with one tone (SpecTone) *)

\* the tone of the analysed buffer: its first and last window boundary
ToneFirst == CHOOSE a \in 0..Len(det.windows) :
                 /\ \A k \in 1..a : det.windows[k] = 0
                 /\ a < Len(det.windows) => det.windows[a + 1] # 0

ToneLast == CHOOSE b \in 0..Len(det.windows) :
                /\ \A k \in (b + 1)..Len(det.windows) : det.windows[k] = 0
                /\ b > 0 => det.windows[b] # 0

\* what C4 says of the result: two silences, [0, about t1) and [about t2, end),
\* and one content clip, about [t1, t2)
ToneResult ==
    LET w == WindowSize(det.sampleRate)
        t1 == ToneFirst * w
        t2 == ToneLast * w
    IN  /\ Len(det.segments) = 2
        /\ det.segments[1].start = 0
        /\ det.segments[1].end >= t1 - 2 * w /\ det.segments[1].end <= t1 + 2 * w
        /\ det.segments[2].start >= t2 - w /\ det.segments[2].start <= t2 + w
        /\ det.segments[2].end = det.length
        /\ app.silenceSegments = det.segments
        /\ Len(app.filteredClips) = 1
        /\ app.filteredClips[1].start >= t1 - 2 * w
        /\ app.filteredClips[1].start <= t1 + 2 * w
        /\ app.filteredClips[1].end >= t2 - w
        /\ app.filteredClips[1].end <= t2 + w

----------------------------------------------------------------------------
(* Claims about the content extraction (SpecExtract) *)

\* the half second [t, t + 1) lies in a silence
Covered(t) ==
    \E k \in 1..Len(app.silenceSegments) :
        app.silenceSegments[k].start <= t /\ t < app.silenceSegments[k].end

\* the maximal gaps of [0, totalDuration) that no silence covers
MaximalGaps ==
    {g \in IntervalsIn(app.totalDuration) :
        /\ \A t \in g.start..(g.end - 1) : ~Covered(t)
        /\ g.start = 0 \/ Covered(g.start - 1)
        /\ g.end = app.totalDuration \/ Covered(g.end)}

\* the clips handed to the batch are the maximal gaps of one second or more, in
\* ascending order, none overlapping a silence, each with start < end
ClipsAreLongGaps ==
    LET clips == app.filteredClips
    IN  /\ {clips[k] : k \in 1..Len(clips)} =
              {g \in MaximalGaps : g.end - g.start >= app.second}
        /\ \A k \in 2..Len(clips) : clips[k].start >= clips[k - 1].end
        /\ \A k \in 1..Len(clips) :
              /\ clips[k].start < clips[k].end
              /\ \A j \in 1..Len(app.silenceSegments) :
                    \/ clips[k].end <= app.silenceSegments[j].start
                    \/ app.silenceSegments[j].end <= clips[k].start

\* C5 as stated: for every sorted list of silences, the empty one too, the
\* handler's clips are the maximal gaps of one second or more.
C5_ClipsAreGapsAsStated ==
    app.pc \in {"refused", "empty", "batch"} => ClipsAreLongGaps

\* C5 as amended: for every sorted list of silences within [0, duration] that is
\* not empty, the handler's clips are the maximal gaps of one second or more.
C5_ClipsAreGapsOfNonEmptyList ==
    (app.pc \in {"refused", "empty", "batch"} /\ Len(app.silenceSegments) > 0)
        => ClipsAreLongGaps

\* two clips are kept and a gap shorter than a second is dropped
C5_Witness ==
    /\ app.pc = "batch"
    /\ Len(app.filteredClips) >= 2
    /\ \E k \in 1..Len(app.contentClips) :
          /\ app.contentClips[k].start < app.contentClips[k].end
          /\ app.contentClips[k].end - app.contentClips[k].start < app.second

\* C6 as stated: complementing twice gives back the list of silences.
C6_RoundTripAsStated ==
    app.pc \in {"twice", "refusedTwice"} => app.recomplemented = app.silenceSegments

\* C6 as amended: complementing twice gives back the list of silences when the
\* list is not empty and is not the one interval [0, duration].
C6_RoundTripUnlessWholeBuffer ==
    (/\ app.pc \in {"twice", "refusedTwice"}
     /\ app.silenceSegments # << [start |-> 0, end |-> app.totalDuration] >>)
        => /\ app.pc = "twice"
           /\ app.recomplemented = app.silenceSegments

\* the round trip of a list that touches both 0 and the end of the buffer
C6_Witness ==
    /\ app.pc = "twice"
    /\ Len(app.silenceSegments) >= 2
    /\ app.silenceSegments[1].start = 0
    /\ app.silenceSegments[Len(app.silenceSegments)].end = app.totalDuration
    /\ app.recomplemented = app.silenceSegments

----------------------------------------------------------------------------
(* Claims about processAudioClip (SpecRender) *)

StageOrder ==
    <<"extract", "fadeIn", "fadeOut", "noiseReduction", "equalizer",
      "normalize", "encode">>

Rank(stage) == CHOOSE k \in 1..Len(StageOrder) : StageOrder[k] = stage

\* the effect stages that the options of the request enable
EnabledStages(options) ==
    {stage \in {"fadeIn", "fadeOut", "noiseReduction", "equalizer", "normalize"} :
        \/ stage = "fadeIn" /\ "fadeIn" \in DOMAIN options /\ options.fadeIn > 0
        \/ stage = "fadeOut" /\ "fadeOut" \in DOMAIN options /\ options.fadeOut > 0
        \/ /\ stage = "noiseReduction"
           /\ "noiseReduction" \in DOMAIN options
           /\ options.noiseReduction > 0
        \/ /\ stage = "equalizer"
           /\ "equalizerBands" \in DOMAIN options
           /\ options.equalizerBands # << >>
        \/ stage = "normalize" /\ "normalize" \in DOMAIN options /\ options.normalize}

StagesRun == {render.stages[k] : k \in 1..Len(render.stages)}

\* C7: the stages that have run are in the order extraction, fade-in, fade-out,
\* noise reduction, equalization, normalization, encoding, each at most once;
\* none runs before the extraction has completed; while the equalizer's render
\* is awaited neither the normalization nor the encoding has run; a call that
\* failed has not encoded; the encoding is the last stage and ends the call;
\* and a call that returns has run the extraction, the encoding and exactly the
\* effect stages that its options enable.
C7_StagesInOrderExactlyEnabled ==
    /\ \A j, k \in 1..Len(render.stages) :
          j < k => Rank(render.stages[j]) < Rank(render.stages[k])
    /\ render.pc \in {"requested", "extracting"} => render.stages = << >>
    /\ render.stages # << >> => render.stages[1] = "extract"
    /\ render.pc = "equalizing" =>
          /\ StagesRun \cap {"equalizer", "normalize", "encode"} = {}
          /\ "equalizer" \in EnabledStages(render.options)
          /\ render.blob = NoBlob
    /\ render.pc = "failed" => "encode" \notin StagesRun /\ render.blob = NoBlob
    /\ "encode" \in StagesRun =>
          /\ render.stages[Len(render.stages)] = "encode"
          /\ render.pc = "done"
    /\ render.pc = "done" =>
          StagesRun = {"extract", "encode"} \cup EnabledStages(render.options)

\* a call with every stage enabled has returned
C7_Witness ==
    /\ render.pc = "done"
    /\ render.stages = StageOrder

\* the request is a range of positive length inside the source
RangeInsideSource ==
    /\ 0 <= render.startTime
    /\ render.startTime < render.endTime
    /\ render.endTime * render.originalBuffer.sampleRate
          <= render.originalBuffer.length * TimeDen

\* ceil((endTime - startTime) * sampleRate)
RequestedFrames ==
    CeilDiv((render.endTime - render.startTime) * render.originalBuffer.sampleRate,
            TimeDen)

\* C8: for a range of positive length inside the source, the buffer after the
\* extraction and after every effect stage has ceil((end - start) * sampleRate)
\* frames in each channel, and the encoded output has 44 bytes and then that
\* count * channels * 2 bytes of data, whichever stages are enabled.
C8_OutputLengthIsCeil ==
    (RangeInsideSource /\ render.pc \in {"equalizing", "done"}) =>
        /\ render.renderedBuffer.length = RequestedFrames
        /\ render.renderedBuffer.numberOfChannels
              = render.originalBuffer.numberOfChannels
        /\ \A c \in 1..render.renderedBuffer.numberOfChannels :
              Len(render.renderedBuffer.channels[c]) = RequestedFrames
        /\ render.pc = "done" =>
              Len(render.blob.bytes)
                 = 44 + RequestedFrames * render.originalBuffer.numberOfChannels * 2

\* half a second of the stereo source at 3 Hz gives 2 frames, with effects on
C8_Witness ==
    /\ render.pc = "done"
    /\ RangeInsideSource
    /\ render.endTime - render.startTime = 1
    /\ render.originalBuffer.numberOfChannels = 2
    /\ render.renderedBuffer.length = 2
    /\ {"fadeIn", "noiseReduction", "equalizer", "normalize"} \subseteq StagesRun
    /\ Len(render.blob.bytes) = 52

\* the type of the Blob for each format of the model, compared without case
TypeOf(format) ==
    CASE format \in {"mp3", "Mp3"} -> "audio/mp3"
      [] format = "ogg" -> "audio/ogg"
      [] format \in {"flac", "FLAC"} -> "audio/flac"
      [] format = "m4a" -> "audio/m4a"
      [] OTHER -> "audio/wav"

\* the call run to its return
Returned(c) ==
    LET extracted ==
            AfterExtraction(
                Ran(c, "extract", ExtractRange(c.originalBuffer, c.startTime, c.endTime)))
    IN  IF extracted.pc = "equalizing"
        THEN AfterEqualizer(
                Ran(extracted, "equalizer",
                    EqualizerRender(extracted.renderedBuffer, c.options.equalizerBands)))
        ELSE extracted

WithoutQuality(options) ==
    [field \in DOMAIN options \ {"quality"} |-> options[field]]

\* C10: the bytes of the Blob are the WAV encoding of the rendered buffer for
\* every format; the type is audio/mp3, audio/ogg, audio/flac or audio/m4a for
\* that format in any case of letters and audio/wav for wav and for an unknown
\* format; and the bytes are those of the same request without quality.
C10_BytesAreWavTypeIsLabel ==
    render.pc = "done" =>
        /\ render.blob.bytes = AudioBufferToWav(render.renderedBuffer)
        /\ render.blob.type = TypeOf(render.format)
        /\ render.blob.bytes
              = Returned([render EXCEPT !.options = WithoutQuality(@),
                                        !.renderedBuffer = NoBuffer,
                                        !.stages = << >>,
                                        !.blob = NoBlob]).blob.bytes

\* an upper-case format with a quality has returned WAV bytes labelled mp3
C10_Witness ==
    /\ render.pc = "done"
    /\ render.format = "Mp3"
    /\ "quality" \in DOMAIN render.options
    /\ render.blob.type = "audio/mp3"
    /\ Len(render.blob.bytes) > 44
    /\ SubSeq(render.blob.bytes, 1, 4) = RIFF

----------------------------------------------------------------------------
(* Claims about audioBufferToWav (SpecWav) *)

\* the little-endian unsigned number of n bytes after the first offset bytes
Decode(bytes, offset, n) ==
    LET RECURSIVE Value(_)
        Value(k) == IF k > n THEN 0 ELSE bytes[offset + k] + 256 * Value(k + 1)
    IN  Value(1)

\* C9: the output is 44 bytes of header and then the data; read little-endian,
\* the header holds the RIFF size (total length - 8), the PCM tag 1, the
\* buffer's channel count and sample rate, the byte rate sampleRate * channels
\* * 2, the block align channels * 2, 16 bits per sample and the data size
\* samples * channels * 2.
C9_HeaderDecodesToBuffer ==
    enc.pc = "encoded" =>
        LET b == enc.buffer
            dataSize == b.length * b.numberOfChannels * 2
        IN  /\ Len(enc.bytes) = 44 + dataSize
            /\ Decode(enc.bytes, 4, 4) = Len(enc.bytes) - 8
            /\ Decode(enc.bytes, 20, 2) = 1
            /\ Decode(enc.bytes, 22, 2) = b.numberOfChannels
            /\ Decode(enc.bytes, 24, 4) = b.sampleRate
            /\ Decode(enc.bytes, 28, 4) = b.sampleRate * b.numberOfChannels * 2
            /\ Decode(enc.bytes, 32, 2) = b.numberOfChannels * 2
            /\ Decode(enc.bytes, 34, 2) = 16
            /\ Decode(enc.bytes, 40, 4) = dataSize

\* two frames of stereo at 44100 Hz have been encoded
C9_Witness ==
    /\ enc.pc = "encoded"
    /\ enc.buffer.sampleRate = 44100
    /\ enc.buffer.numberOfChannels = 2
    /\ enc.buffer.length = 2
    /\ Len(enc.bytes) = 52
    /\ Decode(enc.bytes, 28, 4) = 176400

----------------------------------------------------------------------------
(* Claims about batchProcessAudioClips (SpecBatch) *)

\* the calls (0, n), (1, n), ..., (last, n) of the progress callback
ProgressUpTo(last, n) == [k \in 1..(last + 1) |-> <<k - 1, n>>]

\* C11: a batch that returns has as many blobs, totalClips and clip reports as
\* it was given ranges; report i has the start, the end and the duration of
\* range i; processedDuration and totalDuration are both the sum of the
\* durations of the ranges.
C11_ReportMatchesRanges ==
    batch.pc = "done" =>
        LET n == Len(batch.clips)
            report == batch.result.report
        IN  /\ batch.result.returned
            /\ Len(batch.result.blobs) = n
            /\ report.totalClips = n
            /\ Len(report.clips) = n
            /\ \A k \in 1..n :
                  /\ report.clips[k].startTime = batch.clips[k].start
                  /\ report.clips[k].endTime = batch.clips[k].end
                  /\ report.clips[k].duration = batch.clips[k].end - batch.clips[k].start
            /\ report.processedDuration = report.totalDuration
            /\ report.totalDuration =
                  SumSeq([k \in 1..n |-> batch.clips[k].end - batch.clips[k].start])

\* a batch of three ranges of 0.5 s, 0.5 s and 1 s has returned
C11_Witness ==
    /\ batch.pc = "done"
    /\ Len(batch.result.blobs) = 3
    /\ batch.result.report.processedDuration = 4
    /\ batch.result.report.clips[3].duration = 2

\* C12: with a progress callback, the callback has been called with (0, n),
\* ..., (i, n) and clips 0 .. i - 1 have completed whenever the render of clip
\* i has been called and not yet returned; between two clips it has been called
\* with (0, n), ..., (i - 1, n); and when the batch returns it has been called
\* n + 1 times, the last time with (n, n).
C12_ProgressBeforeEachClipAndAtEnd ==
    batch.hasCallback =>
        LET n == Len(batch.clips)
        IN  /\ batch.pc = "clip" =>
                  /\ batch.progress = ProgressUpTo(batch.i, n)
                  /\ Len(batch.blobs) = batch.i
                  /\ render.startTime = batch.clips[batch.i + 1].start
                  /\ render.endTime = batch.clips[batch.i + 1].end
            /\ batch.pc = "loop" =>
                  /\ batch.progress = ProgressUpTo(batch.i - 1, n)
                  /\ Len(batch.blobs) = batch.i
                  /\ render.pc \in {"idle", "returned"}
            /\ batch.pc = "done" =>
                  /\ batch.progress = ProgressUpTo(n, n)
                  /\ Len(batch.result.blobs) = n

\* a batch of two ranges has returned after three calls of the callback
C12_Witness ==
    /\ batch.pc = "done"
    /\ batch.hasCallback
    /\ batch.progress = << <<0, 2>>, <<1, 2>>, <<2, 2>> >>

\* C13: when the processAudioClip of clip k has failed and the batch has seen
\* it, the batch has failed with an error that carries the message of the
\* clip's error, it has returned neither blobs nor a report, no clip after k has
\* been rendered, and the last call of the callback is (k, n), not (n, n).
C13_ClipFailureAbortsBatch ==
    (render.pc = "thrown" \/ batch.pc = "failed") =>
        LET n == Len(batch.clips)
        IN  /\ batch.pc = "failed"
            /\ render.pc = "thrown"
            /\ render.error # ""
            /\ batch.error = <<"batch failed", render.error>>
            /\ batch.result = NoResult
            /\ batch.i < n
            /\ render.startTime = batch.clips[batch.i + 1].start
            /\ render.endTime = batch.clips[batch.i + 1].end
            /\ batch.hasCallback => batch.progress = ProgressUpTo(batch.i, n)

\* the second of three clips has failed after the first had completed
C13_Witness ==
    /\ batch.pc = "failed"
    /\ batch.hasCallback
    /\ Len(batch.clips) = 3
    /\ batch.i = 1
    /\ Len(batch.blobs) = 1
    /\ batch.result = NoResult

\* the range is empty or reversed, or it leaves [0, duration] of the source
InvalidRange(buffer, startTime, endTime) ==
    \/ endTime <= startTime
    \/ startTime < 0
    \/ endTime * buffer.sampleRate > buffer.length * TimeDen

\* C14: a processAudioClip whose range is empty, reversed or not inside the
\* source returns no Blob, and a batch holds neither a blob nor a clip report
\* for such a range.
C14_InvalidRangeGivesNoOutput ==
    /\ InvalidRange(render.originalBuffer, render.startTime, render.endTime) =>
          /\ render.pc # "done"
          /\ render.blob = NoBlob
    /\ \A k \in 1..Len(batch.clips) :
          InvalidRange(batch.originalBuffer, batch.clips[k].start, batch.clips[k].end) =>
              /\ k > Len(batch.blobs)
              /\ k > Len(batch.clipReports)

----------------------------------------------------------------------------
(* Claims about the effect stages in processAudioClip (SpecRender) *)

\* a sample that is not a finite number
NonFinite(x) == x \in {NaN, Infinity, NegInfinity}

\* C15: no effect stage leaves a sample that is NaN or infinite in the buffer;
\* a stage that would compute one fails the call instead.
C15_StagesFailInsteadOfNaN ==
    \A c \in 1..render.renderedBuffer.numberOfChannels :
        \A k \in 1..render.renderedBuffer.length :
            ~NonFinite(render.renderedBuffer.channels[c][k])

----------------------------------------------------------------------------
(* Claims about the statistics (SpecStats) *)

AllZero(buffer) ==
    /\ buffer.length > 0
    /\ \A k \in 1..buffer.length : buffer.channels[1][k] = 0

\* C16: of a buffer of zeros calculateAudioStats gives rms 0 and a finite dbFS,
\* the floor 20 * log10(0.00001) that calculateClipStatistics gives as avgDb
\* and peakDb of the same buffer.
C16_ZeroBufferHasFlooredDbFS ==
    AllZero(stats.buffer) =>
        /\ stats.live # NoStats =>
              /\ stats.live.rms = 0
              /\ ~NonFinite(stats.live.dbFS)
              /\ stats.live.dbFS = FloorDb
        /\ stats.clip # NoStats =>
              /\ stats.clip.avgDb = FloorDb
              /\ stats.clip.peakDb = FloorDb

----------------------------------------------------------------------------
(* Claims about the effects alone (SpecNormalize, SpecFade) *)

\* C17: for a buffer whose peak is not 0 and every target, the peak of the
\* buffer normalized twice differs from the peak of the buffer normalized once
\* by at most one step of the sample scale.
C17_NormalizationKeepsPeak ==
    (fx.pc = "twice" /\ MaxAmplitude(fx.buffer) # 0) =>
        /\ MaxAmplitude(fx.once) # 0
        /\ Abs(MaxAmplitude(fx.twice) - MaxAmplitude(fx.once)) <= 1

\* a buffer normalized twice to +20 dB: the peak is cut to 1 both times while
\* another sample has changed again
C17_Witness ==
    /\ fx.pc = "twice"
    /\ fx.options.normalizeTarget = 20
    /\ MaxAmplitude(fx.once) = SampleDen
    /\ MaxAmplitude(fx.twice) = SampleDen
    /\ fx.twice # fx.once

\* the samples that the fades of the options change at the start and at the end
FadeInCount ==
    IF "fadeIn" \in DOMAIN fx.options /\ fx.options.fadeIn > 0
    THEN FadeSamples(fx.buffer, FadeDuration(fx.buffer, fx.options.fadeIn).num,
                     FadeDuration(fx.buffer, fx.options.fadeIn).den)
    ELSE 0

FadeOutCount ==
    IF "fadeOut" \in DOMAIN fx.options /\ fx.options.fadeOut > 0
    THEN FadeSamples(fx.buffer, FadeDuration(fx.buffer, fx.options.fadeOut).num,
                     FadeDuration(fx.buffer, fx.options.fadeOut).den)
    ELSE 0

\* C18: the fade-in changes only the first n_in samples and the fade-out only
\* the last n_out samples of each channel, neither window passes the middle of
\* the buffer, so n_in + n_out <= length, and every sample between the windows
\* is as it was.
C18_FadesLeaveTheMiddle ==
    fx.pc = "faded" =>
        /\ 2 * FadeInCount <= fx.buffer.length
        /\ 2 * FadeOutCount <= fx.buffer.length
        /\ FadeInCount + FadeOutCount <= fx.buffer.length
        /\ fx.once.length = fx.buffer.length
        /\ \A c \in 1..fx.buffer.numberOfChannels :
              \A k \in 1..fx.buffer.length :
                  (FadeInCount < k /\ k <= fx.buffer.length - FadeOutCount) =>
                      fx.once.channels[c][k] = fx.buffer.channels[c][k]

\* fades of 2 s on 5 frames at 3 Hz: two samples faded in, two faded out, the
\* third as it was
C18_Witness ==
    /\ fx.pc = "faded"
    /\ fx.buffer.length = 5
    /\ FadeInCount = 2
    /\ FadeOutCount = 2
    /\ fx.once.channels[1][2] # fx.buffer.channels[1][2]
    /\ fx.once.channels[1][5] # fx.buffer.channels[1][5]
    /\ fx.once.channels[1][3] = fx.buffer.channels[1][3]

----------------------------------------------------------------------------
(* Claims about createPreviewBuffer (SpecPreview) *)

----------------------------------------------------------------------------
(* Claims about the buffers of concurrent calls (SpecHeap) *)

\* C19: no step of a call of processAudioClip, createPreviewBuffer or
\* batchProcessAudioClips, however the calls interleave at their awaits,
\* changes a sample of originalBuffer or of any object that was there before
\* the step: every write goes to an object the step has made.
C19_SourceAndOlderObjectsUnchanged ==
    [][ /\ Len(heap') >= Len(heap)
        /\ \A j \in 1..Len(heap) : heap'[j] = heap[j] ]_vars

\* the three calls have returned, the batch after its two clips; a fade has
\* written to a rendered object, which differs from the range it was made from
C19_Witness ==
    /\ \A k \in Callers : calls[k].pc = "done"
    /\ heap[Source] \in Sources
    /\ \E j \in 2..Len(heap), range \in CallRanges \cup {[start |-> 0, end |-> 1]} :
          /\ heap[j].length = ExtractRange(heap[Source], range.start, range.end).length
          /\ heap[j] # ExtractRange(heap[Source], range.start, range.end)
    /\ Len(heap) >= 5

----------------------------------------------------------------------------
(* More claims about detectVoiceThreshold (SpecDetect) *)

\* C21: every silence interval found starts at the start of a window, and
\* that window is below the threshold.
C21_SilenceStartsAtSilentWindow ==
    \A k \in 1..Len(det.segments) :
        LET w == WindowSize(det.sampleRate)
            start == det.segments[k].start
        IN  /\ start % w = 0
            /\ start \div w + 1 \in 1..Len(det.windows)
            /\ RmsBelow(det.windows[start \div w + 1], det.thresholdDB)

\* the threshold is more negative than the level of every window: the mean
\* square of each window is above 10^(thresholdDB / 10)
ThresholdBelowEveryWindow ==
    \A k \in 1..Len(det.windows) :
        det.windows[k] * Pow10((0 - det.thresholdDB) \div 10) > EnergyDen

\* C22 as stated: with the threshold more negative than the level of every
\* window of a buffer that is not empty, the detector returns the one interval
\* [0, duration], or no interval when the duration is below minSilenceDuration.
C22_WholeBufferAsStated ==
    (det.pc = "done" /\ det.length > 0 /\ ThresholdBelowEveryWindow) =>
        det.segments =
            IF LongEnough(0, det.length, det.sampleRate, det.minSilenceDuration)
            THEN << [start |-> 0, end |-> det.length] >>
            ELSE << >>

\* C22, amended: with the threshold more negative than the level of every
\* window, the detector is never in silence and returns no interval, whatever
\* the duration and minSilenceDuration.
C22_NoSilenceUnderEveryWindow ==
    ThresholdBelowEveryWindow => (~det.inSilence /\ det.segments = << >>)

\* the detector has returned from a buffer of several windows, all above the
\* threshold, that lasts at least minSilenceDuration
C22_Witness ==
    /\ det.pc = "done"
    /\ Len(det.windows) >= 3
    /\ ThresholdBelowEveryWindow
    /\ LongEnough(0, det.length, det.sampleRate, det.minSilenceDuration)
    /\ det.segments = << >>

----------------------------------------------------------------------------
(* Claims about applyNoiseReduction (SpecNoise) *)

\* the noise floor of channel c times the samples it is the mean of: the sum of
\* |sample| over the first min(floor(sampleRate / 2), length) samples
NoiseFloorSamples == Min(fx.buffer.sampleRate \div 2, fx.buffer.length)

NoiseFloorSum(c) ==
    SumSeq([j \in 1..NoiseFloorSamples |-> Abs(fx.buffer.channels[c][j])])

\* C23: for every amount from 0 to 1 each output sample is the input times
\* (1 - amount) when |input| < noiseFloor * (1 + 5 * amount) and times
\* (1 - amount / 2) otherwise, and no input sample other than 0 comes out as 0.
C23_ScaledNeverGated ==
    fx.pc = "reduced" =>
        \A c \in 1..fx.buffer.numberOfChannels : \A k \in 1..fx.buffer.length :
            LET in == fx.buffer.channels[c][k]
                out == fx.once.channels[c][k]
                amount == fx.options.noiseReduction
            IN  /\ IF /\ NoiseFloorSamples > 0
                      /\ Abs(in) * NoiseFloorSamples * 10
                            < NoiseFloorSum(c) * (10 + 5 * amount)
                   THEN out * 10 = in * (10 - amount)
                   ELSE out * 20 = in * (20 - amount)
                /\ in # 0 => out # 0

----------------------------------------------------------------------------
(* More claims about applyNormalization (SpecNormalize) *)

\* C24: after applyNormalization of a buffer whose peak is not 0, every sample
\* of every channel is in [-1, 1]; every sample of every channel is the input
\* times the one gain 10^(targetDb / 20) / peak, the peak being the largest
\* |sample| of all channels, to the step of the sample scale, or is cut to -1
\* or 1 where that product is outside; and the peak of the output is
\* min(1, 10^(targetDb / 20)).
C24_OneGainCutToUnit ==
    (fx.pc = "once" /\ MaxAmplitude(fx.buffer) # 0) =>
        LET peak == MaxAmplitude(fx.buffer)
            gain == TargetGain(fx.options.normalizeTarget)
        IN  /\ \A c \in 1..fx.buffer.numberOfChannels : \A k \in 1..fx.buffer.length :
                  LET in == fx.buffer.channels[c][k]
                      out == fx.once.channels[c][k]
                  IN  /\ out # NaN
                      /\ 0 - SampleDen <= out /\ out <= SampleDen
                      /\ IF Abs(in) * gain.num >= peak * gain.den
                         THEN out = IF in > 0 THEN SampleDen ELSE 0 - SampleDen
                         ELSE Abs(out * peak * gain.den - in * gain.num * SampleDen)
                                  < peak * gain.den
            /\ MaxAmplitude(fx.once) = Min(SampleDen, (gain.num * SampleDen) \div gain.den)

\* a stereo buffer whose channels have different peaks, normalized to -6 dB:
\* the quieter channel stays under the target
C24_Witness ==
    /\ fx.pc = "once"
    /\ fx.buffer.numberOfChannels = 2
    /\ fx.options.normalizeTarget = -6
    /\ MaxAmplitude(fx.buffer) = 800
    /\ \E c \in 1..2 :
          /\ \A k \in 1..fx.buffer.length : Abs(fx.buffer.channels[c][k]) = 50
          /\ \A k \in 1..fx.buffer.length : Abs(fx.once.channels[c][k]) = 31
    /\ MaxAmplitude(fx.once) = 501

----------------------------------------------------------------------------
(* More claims about batchProcessAudioClips (SpecBatch) *)

\* a call of processAudioClip has been made and has not yet given its Blob or
\* its error to the batch
InFlight(c) == c.pc \in {"requested", "extracting", "equalizing", "done", "failed"}

\* C25: the batch calls processAudioClip for a clip only when no call is in
\* flight and the blob and the report of every clip before it are in the
\* lists; while a call is in flight the batch waits for it.
C25_OneRenderAtATime ==
    [][ /\ (batch' # batch /\ render'.pc = "requested") =>
              /\ ~InFlight(render)
              /\ Len(batch.blobs) = batch.i
              /\ Len(batch.clipReports) = batch.i
              /\ render' = BatchClipCall(batch)
        /\ InFlight(render) =>
              /\ batch.pc = "clip"
              /\ Len(batch.blobs) = batch.i
              /\ Len(batch.clipReports) = batch.i ]_vars

\* the third clip is rendering; the blobs and the reports of the first two are
\* in the lists
C25_Witness ==
    /\ batch.i = 2
    /\ render.pc = "extracting"
    /\ Len(batch.blobs) = 2
    /\ Len(batch.clipReports) = 2

\* C26: the report of clip k is the report that a run over the same source and
\* the same ranges makes of clip k with any other options, format and blob: the
\* start, the end, the duration, peakDb and avgDb do not depend on them.
C26_ReportsIndependentOfOptions ==
    \A k \in 1..Len(batch.clipReports) :
        \A options \in BatchOptions, format \in Formats :
            LET other == [BatchStart(batch.clips, batch.originalBuffer, format,
                                     options, FALSE) EXCEPT !.i = k - 1]
            IN  BatchClipResolved(other, NoBlob).clipReports = <<batch.clipReports[k]>>

\* a batch that fades and normalizes has returned the reports of two clips
\* whose peaks differ
C26_Witness ==
    /\ batch.pc = "done"
    /\ Has(batch.options, "normalize")
    /\ Len(batch.result.report.clips) = 2
    /\ batch.result.report.clips[1].peakDb # batch.result.report.clips[2].peakDb
    /\ batch.result.report.clips[1].peakDb # NormalizeTarget(batch.options)

----------------------------------------------------------------------------
(* The bounds of the intervals of detectVoiceThreshold (SpecDetect) *)

\* C27: every interval found, closed when silence ends or at the end of the
\* buffer, has 0 <= start < end <= length, the three as sample offsets of one
\* sample rate, also when the last window is partial.
C27_IntervalsInsideBuffer ==
    \A k \in 1..Len(det.segments) :
        /\ 0 <= det.segments[k].start
        /\ det.segments[k].start < det.segments[k].end
        /\ det.segments[k].end <= det.length

\* a buffer whose last window is partial has given an interval closed by two
\* voiced windows and an interval closed at its end
C27_Witness ==
    /\ det.pc = "done"
    /\ det.length % WindowSize(det.sampleRate) # 0
    /\ Len(det.segments) = 2
    /\ det.segments[1].end < det.segments[2].start
    /\ det.segments[2].end = det.length

----------------------------------------------------------------------------
(* The data chunk of audioBufferToWav (SpecWav) *)

\* C28: for every channel count the bytes after the header are, frame by
\* frame and within a frame channel by channel, the two bytes of each sample,
\* and there are as many of them as the header's data size says.
C28_DataInterleavesEveryChannel ==
    enc.pc = "encoded" =>
        LET b == enc.buffer
            n == b.numberOfChannels
        IN  /\ Len(enc.bytes) - 44 = Decode(enc.bytes, 40, 4)
            /\ \A frame \in 1..b.length : \A channel \in 1..n :
                  LET offset == 44 + ((frame - 1) * n + (channel - 1)) * 2
                  IN  <<enc.bytes[offset + 1], enc.bytes[offset + 2]>>
                          = SampleBytes(b.channels[channel][frame])

----------------------------------------------------------------------------
(* The target of the normalization (SpecPreview) *)

\* the normalization was the last stage of the call, a target was given, and
\* the result has a peak: the peak is that of the target given
PeakIsTargetGiven(c) ==
    (/\ c.pc = "done"
     /\ Has(c.options, "normalize") /\ c.options.normalize
     /\ Has(c.options, "normalizeTarget")
     /\ MaxAmplitude(c.renderedBuffer) # 0) =>
        LET gain == TargetGain(c.options.normalizeTarget)
        IN  MaxAmplitude(c.renderedBuffer)
                = Min(SampleDen, (gain.num * SampleDen) \div gain.den)

\* C29: with normalize on and a normalizeTarget given, processAudioClip and
\* createPreviewBuffer normalize to that target, 0 dB included; -3 dB is for
\* the options without a target.
C29_NormalizesToTargetGiven ==
    PeakIsTargetGiven(render) /\ PeakIsTargetGiven(preview)

----------------------------------------------------------------------------
(* Claims about the selection of files (SpecFiles) *)

\* C30: once every decode that was started has called back, audioBuffer and
\* analysisResult are those of audioFile, the file chosen last.
C30_BufferIsOfFileChosenLast ==
    (files.audioFile # 0 /\ files.reads = {}) =>
        /\ files.audioBuffer = files.audioFile
        /\ files.analysisResult = files.audioFile

====
